---- MODULE Spec2Model ----
(***************************************************************************)
(* Verksamhetscykel (year wheel): the selection / highlight state machine  *)
(* of js/state.js and js/main.js, the event markers and the carousel of    *)
(* js/events.js, and the date helpers of js/utils.js.                      *)
(*                                                                         *)
(* One action per DOM handler.  A handler whose click bubbles to the <svg> *)
(* element (month arcs, ring segments and period arcs do not stop          *)
(* propagation) includes the svg click handler of main.js.                 *)
(***************************************************************************)
EXTENDS Integers, Sequences, FiniteSets, TLC

-----------------------------------------------------------------------------
(* Bounds of the model *)

\* month arcs that receive pointer input are 0..MaxMonth
MaxMonth == 0
\* ring bands that receive pointer input are 0..MaxRing
MaxRing == 0
\* length of config.periodDividerWeeks
NumPeriods == 2
\* the visible events of the data document are ev_0 .. ev_(NumEvents-1)
NumEvents == 2
\* timer handles available to setTimeout
MaxTimerId == 4
\* longest config.periodDividerWeeks tried on getActiveWeeksFromPeriods
MaxDividers == 4
\* longest event list tried on calculateLabelPositions
MaxLabels == 3
\* the initial vertical keys of the labels are 0..MaxKey
MaxKey == 1
\* the label spacings of a layout are 0..MaxSpacing
MaxSpacing == 2
\* the years tried on the week ring are Year - YearSpan .. Year + YearSpan
YearSpan == 6
\* a marker tried on calculateElbow is 1..MaxMarkerScale times a point of
\* radius 5
MaxMarkerScale == 2

-----------------------------------------------------------------------------
(* Values *)

\* JavaScript null for identifiers and for the mode tag
NULL == "null"
\* JavaScript null for the hovered index slots
NoIdx == -1

Year == 2026
RingCount == 4
RingInnerDefault == 120
RingOuterDefault == 380
MonthBandR0Default == 400
MonthBandR1Default == 420
LabelSpacingDefault == 40
ConnectorElbowRadiusDefault == 480
\* a curve factor is a fraction; the default one is 1
CurveFactorDefault == [num |-> 1, den |-> 1]
TotalMonths == 12
Delay1 == 2500
Delay2 == 6000
Delay3 == 9000

Months == 0..(TotalMonths - 1)
Rings == 0..(RingCount - 1)
Periods == 0..(NumPeriods - 1)
MonthInputs == 0..MaxMonth
RingInputs == 0..MaxRing
Facets == {"verksamhet", "ekonomi", "kvalitet"}
TimerIds == 1..MaxTimerId

RING_NAMES ==
  <<"langtidsplanering", "planering",
    "genomforande_och_uppfoljning", "uppfoljning_och_analys">>

\* RING_NAMES[ringIdx]; an index outside the table reads undefined
RingName(ringIdx) ==
  IF ringIdx + 1 \in DOMAIN RING_NAMES THEN RING_NAMES[ringIdx + 1] ELSE "undefined"

\* config.periodDividerWeeks: one divider every five weeks from week 1
PeriodDividerWeeks == [t \in 1..NumPeriods |-> 1 + (t - 1) * 5]

-----------------------------------------------------------------------------
(* The data document: the event records (date in config.year) *)

EventTable ==
  <<[id |-> "ev_0", month |-> 0, day |-> 12, ring |-> "planering",
     ring_2 |-> NULL, facets |-> {"verksamhet"}],
    [id |-> "ev_1", month |-> 1, day |-> 20, ring |-> "genomforande_och_uppfoljning",
     ring_2 |-> "langtidsplanering", facets |-> {"ekonomi"}],
    [id |-> "ev_2", month |-> 0, day |-> 30, ring |-> "manad",
     ring_2 |-> NULL, facets |-> {"verksamhet", "kvalitet"}],
    [id |-> "ev_3", month |-> 1, day |-> 3, ring |-> "planering",
     ring_2 |-> NULL, facets |-> {"ekonomi", "kvalitet"}]>>

AllVisibleEvents == {EventTable[k].id : k \in 1..NumEvents}

Ev(id) == EventTable[CHOOSE k \in 1..NumEvents : EventTable[k].id = id]

-----------------------------------------------------------------------------
(* Calendar arithmetic behind the JavaScript Date calls *)

IsLeap(y) == (y % 4 = 0 /\ y % 100 # 0) \/ y % 400 = 0

DaysInMonth(y, m) ==
  IF m = 1 THEN (IF IsLeap(y) THEN 29 ELSE 28)
  ELSE IF m \in {3, 5, 8, 10} THEN 30 ELSE 31

LeapsUpTo(y) == (y \div 4) - (y \div 100) + (y \div 400)

\* days from 1970-01-01 to January 1 of year y
Jan1(y) == 365 * (y - 1970) + LeapsUpTo(y - 1) - LeapsUpTo(1969)

RECURSIVE DaysBeforeMonth(_, _)
DaysBeforeMonth(y, m) ==
  IF m = 0 THEN 0 ELSE DaysBeforeMonth(y, m - 1) + DaysInMonth(y, m - 1)

\* new Date(y, m, d) as a day number (m is 0-based)
DateOf(y, m, d) == Jan1(y) + DaysBeforeMonth(y, m) + (d - 1)

\* Date.prototype.getDay: 0 = Sunday; 1970-01-01 was a Thursday
GetDay(n) == (n + 4) % 7

\* Date.prototype.getFullYear of a day number: the year is 1970 plus at
\* least n / 366 and at most n / 365
FullYearOf(n) ==
  CHOOSE y \in (1970 + n \div 366)..(1970 + n \div 365) :
    Jan1(y) <= n /\ n < Jan1(y + 1)

getWeekNumber(date) ==
  LET dayNum == IF GetDay(date) = 0 THEN 7 ELSE GetDay(date)
      d == date + 4 - dayNum
      yearStart == Jan1(FullYearOf(d))
  IN  ((d - yearStart) + 1 + 6) \div 7

EvWeek(id) == getWeekNumber(DateOf(Year, Ev(id).month, Ev(id).day))

-----------------------------------------------------------------------------
VARIABLES
  \* state.js createState
  segmentFilters, clickedMonths, hoveredMonth, clickedRings, hoveredRing,
  clickedPeriods, hoveredPeriod, hoveredEvent, clickedEvent,
  clickedEventPhase, selectionMode, hoverCycleTimeouts, currentHoverPhase,
  \* main.js initWheel closure
  events, chevronJustClicked,
  \* the host: pending setTimeout callbacks, and the marker under the pointer
  timers, pointerOver,
  \* the DOM: centre content, carousel chevrons, highlight classes
  centerInfo, chevrons,
  markerActive, markerDimmed, connActive, connDimmed,
  monthArcActive, monthArcDimmed, monthLabelActive, monthLabelDimmed,
  ringSegActive, ringSegDimmed, periodSegDimmed,
  \* the handler that ran last
  last,
  \* config.js loadData: the configuration in use
  config,
  \* the value the last call of getActiveWeeksFromPeriods returned
  activeWeeksResult,
  \* rings.js renderWeekRing: its totalWeeks, and the last week arc's range
  weekRingTotal, weekRange,
  \* events.js calculateLabelPositions: its arguments and its labelData
  labelEvents, layout, labelData,
  \* the last call of calculateElbow, of the angle scale, and of
  \* getWeekNumber with the range of that week: arguments and result
  elbowCall, angleCall, dateWeek

selVars == <<clickedMonths, hoveredMonth, clickedRings, hoveredRing,
             clickedPeriods, hoveredPeriod, selectionMode>>
cycleVars == <<hoverCycleTimeouts, currentHoverPhase, timers>>
markerVars == <<markerActive, markerDimmed>>
connVars == <<connActive, connDimmed>>
axisDomVars == <<monthArcActive, monthArcDimmed, monthLabelActive,
                 monthLabelDimmed, ringSegActive, ringSegDimmed, periodSegDimmed>>
domVars == <<markerVars, connVars, axisDomVars>>
\* everything of the wheel that a calculation leaves alone
wheelVars ==
  <<segmentFilters, selVars, hoveredEvent, clickedEvent, clickedEventPhase,
    cycleVars, events, chevronJustClicked, centerInfo, chevrons, domVars,
    pointerOver>>

\* the configuration and what the calculations return
calcOnlyVars == <<config, activeWeeksResult, weekRingTotal, weekRange,
                  labelEvents, layout, labelData, elbowCall, angleCall, dateWeek>>
\* what a handler leaves alone when the pointer does not move with it
calcVars == <<calcOnlyVars, pointerOver>>
vars == <<segmentFilters, selVars, hoveredEvent, clickedEvent, clickedEventPhase,
          cycleVars, events, chevronJustClicked, centerInfo, chevrons, domVars, last,
          calcVars>>

\* the configuration of the data document, after normalizeConfig
WheelConfig == [year |-> Year, periodDividerWeeks |-> PeriodDividerWeeks]

\* getLayoutConfig: the ring band of a configuration that sets none of it
DefaultLayout ==
  [ringInner |-> RingInnerDefault, ringOuter |-> RingOuterDefault,
   ringCount |-> RingCount,
   monthBandR0 |-> MonthBandR0Default, monthBandR1 |-> MonthBandR1Default,
   labelVerticalSpacingLeft |-> LabelSpacingDefault,
   labelVerticalSpacingRight |-> LabelSpacingDefault,
   connectorElbowRadius |-> ConnectorElbowRadiusDefault,
   jd_connectorCurveFactor |-> CurveFactorDefault,
   maso_connectorCurveFactor |-> CurveFactorDefault,
   fman_connectorCurveFactor |-> CurveFactorDefault,
   jj_connectorCurveFactor |-> CurveFactorDefault]

-----------------------------------------------------------------------------
(* state.js *)

RangeOf(seq) == {seq[k] : k \in DOMAIN seq}

\* getFilteredEvents(state, allEvents) for the filter record f
getFilteredEvents(f) ==
  {e \in AllVisibleEvents : \E x \in Facets : f[x] /\ x \in Ev(e).facets}

\* the has* flags of initWheel / renderSegmentButtons
HasFacet(x) == \E e \in AllVisibleEvents : x \in Ev(e).facets

\* faulty variant of the toggle: the index is added and never removed
ToggleMember_AddOnly(S, i) == S \cup {i}

\* toggleMonth / toggleRing / togglePeriod: membership of the index flips
ToggleMember(S, i) == IF i \in S THEN S \ {i} ELSE S \cup {i}

\* faulty variant of the mode tag: it is not reset when the set gets empty
ModeAfterToggle_KeepsAxis(axis, S) == axis

\* the mode tag after a toggle on axis `axis` left the set S
ModeAfterToggle(axis, S) == IF Cardinality(S) = 0 THEN NULL ELSE axis

\* faulty variant of clearHoverCycle: the handle list is emptied but
\* clearTimeout is never called
ClearedTimers_None(ts, handles) == ts

\* clearHoverCycle: the callbacks of ts that survive clearTimeout over the
\* handle list
ClearedTimers(ts, handles) == {t \in ts : t.id \notin RangeOf(handles)}

\* getActiveSets(state)
getActiveSets ==
  LET am == clickedMonths \cup (IF hoveredMonth # NoIdx THEN {hoveredMonth} ELSE {})
      ar == clickedRings \cup (IF hoveredRing # NoIdx THEN {hoveredRing} ELSE {})
      ap == clickedPeriods \cup (IF hoveredPeriod # NoIdx THEN {hoveredPeriod} ELSE {})
  IN  [activeMonths |-> am,
       activeRings |-> ar,
       activePeriods |-> ap,
       hasMonthActive |-> Cardinality(am) > 0,
       hasRingActive |-> Cardinality(ar) > 0,
       hasPeriodActive |-> Cardinality(ap) > 0,
       hasAnyActive |-> Cardinality(am) > 0 \/ Cardinality(ar) > 0 \/ Cardinality(ap) > 0]

-----------------------------------------------------------------------------
(* main.js *)

\* const totalWeeks = (year === 2026) ? 53 : 52, in renderWeekRing and in
\* getActiveWeeksFromPeriods
totalWeeksOf(year) == IF year = 2026 THEN 53 ELSE 52

totalWeeks == totalWeeksOf(Year)

\* faulty variant of getActiveWeeksFromPeriods: a period whose two dividers
\* are equal does not wrap
getActiveWeeksFromPeriodsOf_StrictWrap(activePeriodIndices, cfg) ==
  LET dividers == cfg.periodDividerWeeks
      numPeriods == Len(dividers)
      InPeriod(idx, w) ==
        LET sw == dividers[idx + 1]
            ew == dividers[((idx + 1) % numPeriods) + 1]
            wraps == (ew < sw)
        IN  IF wraps THEN (w >= sw \/ w < ew) ELSE (w >= sw /\ w < ew)
  IN  {w \in 1..totalWeeksOf(cfg.year) :
         \E idx \in activePeriodIndices : InPeriod(idx, w)}

\* faulty variant of getActiveWeeksFromPeriods: the wrap across year-end is
\* not handled
getActiveWeeksFromPeriodsOf_NoWrap(activePeriodIndices, cfg) ==
  LET dividers == cfg.periodDividerWeeks
      numPeriods == Len(dividers)
      InPeriod(idx, w) ==
        LET sw == dividers[idx + 1]
            ew == dividers[((idx + 1) % numPeriods) + 1]
        IN  w >= sw /\ w < ew
  IN  {w \in 1..totalWeeksOf(cfg.year) :
         \E idx \in activePeriodIndices : InPeriod(idx, w)}

\* faulty variant of getActiveWeeksFromPeriods: the end divider belongs to
\* the period
getActiveWeeksFromPeriodsOf_EndIncluded(activePeriodIndices, cfg) ==
  LET dividers == cfg.periodDividerWeeks
      numPeriods == Len(dividers)
      InPeriod(idx, w) ==
        LET sw == dividers[idx + 1]
            ew == dividers[((idx + 1) % numPeriods) + 1]
            wraps == (ew <= sw)
        IN  IF wraps THEN (w >= sw \/ w <= ew) ELSE (w >= sw /\ w <= ew)
  IN  {w \in 1..totalWeeksOf(cfg.year) :
         \E idx \in activePeriodIndices : InPeriod(idx, w)}

\* getActiveWeeksFromPeriods(activePeriodIndices, config), for any config
getActiveWeeksFromPeriodsOf(activePeriodIndices, cfg) ==
  LET dividers == cfg.periodDividerWeeks
      numPeriods == Len(dividers)
      InPeriod(idx, w) ==
        LET sw == dividers[idx + 1]
            ew == dividers[((idx + 1) % numPeriods) + 1]
            wraps == (ew <= sw)
        IN  IF wraps THEN (w >= sw \/ w < ew) ELSE (w >= sw /\ w < ew)
  IN  {w \in 1..totalWeeksOf(cfg.year) :
         \E idx \in activePeriodIndices : InPeriod(idx, w)}

\* getActiveWeeksFromPeriods(activePeriodIndices, config) of the wheel
getActiveWeeksFromPeriods(activePeriodIndices) ==
  getActiveWeeksFromPeriodsOf(activePeriodIndices, WheelConfig)

\* faulty variant of the month dimming: the period exception is missing
MonthIsDimmed_PeriodDims(m, A) ==
  A.hasAnyActive /\ ~(A.hasMonthActive /\ m \in A.activeMonths) /\ ~A.hasRingActive

\* refreshHighlights, month arcs and month labels; A is the getActiveSets record
MonthIsActive(m, A) == A.hasMonthActive /\ m \in A.activeMonths
MonthIsDimmed(m, A) ==
  A.hasAnyActive /\ ~MonthIsActive(m, A) /\ ~A.hasRingActive /\ ~A.hasPeriodActive

\* refreshHighlights, ring segments (data-ring r, data-month m)
RingSegIsActive(r, m, A) ==
  IF A.hasRingActive THEN r \in A.activeRings
  ELSE IF A.hasMonthActive THEN m \in A.activeMonths
  ELSE FALSE
RingSegIsDimmed(r, m, A) == A.hasAnyActive /\ ~RingSegIsActive(r, m, A)

\* faulty variant of the marker activation: the month branch comes first
MarkerIsActive_MonthFirst(evId, A, evs, activeWeeks) ==
  LET found == evId \in evs
      m == Ev(evId).month
  IN  IF A.hasMonthActive THEN m \in A.activeMonths
      ELSE IF A.hasRingActive
      THEN \E ringIdx \in A.activeRings :
             found /\ (Ev(evId).ring = RingName(ringIdx)
                       \/ Ev(evId).ring_2 = RingName(ringIdx))
      ELSE IF A.hasPeriodActive /\ found THEN EvWeek(evId) \in activeWeeks
      ELSE FALSE

\* refreshHighlights, event markers: evs is the filtered list `events`, so
\* events.find(...) is undefined for a marker whose event the filter removed;
\* activeWeeks is getActiveWeeksFromPeriods(activePeriods, config)
MarkerIsActive(evId, A, evs, activeWeeks) ==
  LET found == evId \in evs
      m == Ev(evId).month
  IN  IF A.hasRingActive
      THEN \E ringIdx \in A.activeRings :
             found /\ (Ev(evId).ring = RingName(ringIdx)
                       \/ Ev(evId).ring_2 = RingName(ringIdx))
      ELSE IF A.hasMonthActive THEN m \in A.activeMonths
      ELSE IF A.hasPeriodActive /\ found THEN EvWeek(evId) \in activeWeeks
      ELSE FALSE

\* faulty variant of the marker dimming: hasAnyActive is not consulted
MarkerIsDimmed_NoAny(evId, A, evs, activeWeeks) ==
  ~MarkerIsActive(evId, A, evs, activeWeeks)

\* refreshHighlights, event markers: isDimmed
MarkerIsDimmed(evId, A, evs, activeWeeks) ==
  A.hasAnyActive /\ ~MarkerIsActive(evId, A, evs, activeWeeks)

\* refreshHighlights, period segments
PeriodSegIsDimmed(i, A) ==
  A.hasAnyActive /\ ~(i \in A.activePeriods) /\ ~A.hasMonthActive /\ ~A.hasRingActive

\* markers exist for the events that passed the filter at start-up
Markers == getFilteredEvents([x \in Facets |-> HasFacet(x)])

\* refreshHighlights: every highlight class is recomputed from the new state
refreshHighlights ==
  \E A \in {getActiveSets'} :
  \E activeWeeks \in {getActiveWeeksFromPeriods(A.activePeriods)} :
  \E evs \in {events'} :
      /\ monthArcActive' = {m \in Months : MonthIsActive(m, A)}
      /\ monthArcDimmed' = {m \in Months : MonthIsDimmed(m, A)}
      /\ ringSegActive' = {rm \in Rings \X Months : RingSegIsActive(rm[1], rm[2], A)}
      /\ ringSegDimmed' = {rm \in Rings \X Months : RingSegIsDimmed(rm[1], rm[2], A)}
      /\ monthLabelActive' = {m \in Months : MonthIsActive(m, A)}
      /\ monthLabelDimmed' = {m \in Months : MonthIsDimmed(m, A)}
      /\ markerActive' = {e \in Markers : MarkerIsActive(e, A, evs, activeWeeks)}
      /\ markerDimmed' = {e \in Markers : MarkerIsDimmed(e, A, evs, activeWeeks)}
      /\ connActive' = {e \in Markers : MarkerIsActive(e, A, evs, activeWeeks)}
      /\ connDimmed' = {e \in Markers : MarkerIsDimmed(e, A, evs, activeWeeks)}
      /\ periodSegDimmed' = {i \in Periods : PeriodSegIsDimmed(i, A)}

-----------------------------------------------------------------------------
NoInfo == [ev |-> NULL, phase |-> 0]

\* the record kept in `last`: the handler that ran and its argument
Did(op, idx, ev) == [op |-> op, idx |-> idx, ev |-> ev]

\* initWheel: the selection state, the closure and the DOM after start-up
InitWheel ==
  /\ segmentFilters = [x \in Facets |-> HasFacet(x)]
  /\ clickedMonths = {} /\ hoveredMonth = NoIdx
  /\ clickedRings = {} /\ hoveredRing = NoIdx
  /\ clickedPeriods = {} /\ hoveredPeriod = NoIdx
  /\ hoveredEvent = NULL /\ clickedEvent = NULL /\ clickedEventPhase = 0
  /\ selectionMode = NULL
  /\ hoverCycleTimeouts = <<>> /\ currentHoverPhase = 0
  /\ events = getFilteredEvents([x \in Facets |-> HasFacet(x)])
  /\ chevronJustClicked = FALSE
  /\ timers = {}
  /\ pointerOver = NULL
  /\ centerInfo = NoInfo /\ chevrons = "none"
  /\ markerActive = {} /\ markerDimmed = {}
  /\ connActive = {} /\ connDimmed = {}
  /\ monthArcActive = {} /\ monthArcDimmed = {}
  /\ monthLabelActive = {} /\ monthLabelDimmed = {}
  /\ ringSegActive = {} /\ ringSegDimmed = {}
  /\ periodSegDimmed = {}
  /\ last = Did("init", NoIdx, NULL)

\* no call of getActiveWeeksFromPeriods has returned yet
NoWeeksCall == [called |-> FALSE, periods |-> {}, weeks |-> {}]

\* no call of getIsoWeekRange has returned yet
NoWeekRange == [called |-> FALSE, week |-> 0, start |-> 0, end |-> 0]

\* no call of calculateElbow has returned yet
NoElbowCall ==
  [called |-> FALSE, x |-> 0, y |-> 0, a |-> <<1, 0>>, month |-> 0,
   lineEndX |-> 0, lineEndY |-> 0,
   elbow |-> [radius |-> 0, from |-> <<1, 0>>, toward |-> <<1, 0>>,
              factor |-> [num |-> 0, den |-> 1]]]

\* no call of the angle scale has returned yet
NoAngleCall == [called |-> FALSE, date |-> 0, angle |-> 0]

\* no call of getWeekNumber has returned yet
NoDateWeek == [called |-> FALSE, date |-> 0, week |-> 0, start |-> 0, end |-> 0]

\* the wheel of the data document: its configuration, nothing computed yet
Init ==
  /\ InitWheel
  /\ config = WheelConfig
  /\ layout = DefaultLayout
  /\ activeWeeksResult = NoWeeksCall
  /\ weekRingTotal = 0
  /\ weekRange = NoWeekRange
  /\ labelEvents = <<>>
  /\ labelData = <<>>
  /\ elbowCall = NoElbowCall
  /\ angleCall = NoAngleCall
  /\ dateWeek = NoDateWeek

-----------------------------------------------------------------------------
(* events.js: hover cycle and carousel *)

\* clearHoverCycle(state)
clearHoverCycle ==
  /\ timers' = ClearedTimers(timers, hoverCycleTimeouts)
  /\ hoverCycleTimeouts' = <<>>
  /\ currentHoverPhase' = 0

\* the k-th smallest timer handle that no pending callback of ts uses
RECURSIVE FreshId(_, _)
FreshId(ts, k) ==
  LET free == TimerIds \ {t.id : t \in ts}
      least == CHOOSE i \in free : \A j \in free : i <= j
  IN  IF k = 1 THEN least
      ELSE FreshId(ts \cup {[id |-> least, ev |-> NULL, delay |-> 0]}, k - 1)

\* faulty variant of startHoverCycle: the callback that restarts the cycle is
\* not scheduled
ScheduledFor_NoRestart(ev, ts) ==
  {[id |-> FreshId(ts, 1), ev |-> ev, delay |-> Delay1],
   [id |-> FreshId(ts, 2), ev |-> ev, delay |-> Delay2]}

\* the three callbacks startHoverCycle(ev) schedules once ts is what is pending
ScheduledFor(ev, ts) ==
  {[id |-> FreshId(ts, 1), ev |-> ev, delay |-> Delay1],
   [id |-> FreshId(ts, 2), ev |-> ev, delay |-> Delay2],
   [id |-> FreshId(ts, 3), ev |-> ev, delay |-> Delay3]}

\* startHoverCycle(ev), run when ts are the pending callbacks
startHoverCycle(ev, ts) ==
  LET kept == ClearedTimers(ts, hoverCycleTimeouts)
  IN  /\ Cardinality(TimerIds \ {t.id : t \in kept}) >= 3
      /\ timers' = kept \cup ScheduledFor(ev, kept)
      /\ hoverCycleTimeouts' = <<FreshId(kept, 1), FreshId(kept, 2), FreshId(kept, 3)>>
      /\ currentHoverPhase' = 0
      /\ centerInfo' = [ev |-> ev, phase |-> 0]

\* updateCenterInfo(null): the timers are cancelled and the text element
\* .center-info is removed; a foreignObject (.center-info-foreign, phases 1
\* and 2) is not selected
CenterAfterClear(ci) == IF ci.phase = 0 THEN NoInfo ELSE ci

\* faulty variant of updateCenterInfo(null): the hover cycle is not cleared
updateCenterInfoNull_NoClear ==
  /\ UNCHANGED <<hoverCycleTimeouts, currentHoverPhase, timers>>
  /\ centerInfo' = CenterAfterClear(centerInfo)

\* updateCenterInfo(null)
updateCenterInfoNull ==
  /\ clearHoverCycle
  /\ centerInfo' = CenterAfterClear(centerInfo)

\* faulty variant of navigateCarousel: the direction is ignored
NextPhase_Forward(phase, direction) == (phase + 1) % 3

\* navigateCarousel: the next phase
NextPhase(phase, direction) == (phase + direction + 3) % 3

\* faulty variant of updateCarouselContent: the hover cycle is not cleared
updateCarouselContent_KeepsCycle(ev, phase) ==
  /\ UNCHANGED <<hoverCycleTimeouts, currentHoverPhase, timers>>
  /\ centerInfo' = [ev |-> ev, phase |-> phase]

\* updateCarouselContent(ev, phase)
updateCarouselContent(ev, phase) ==
  /\ clearHoverCycle
  /\ centerInfo' = [ev |-> ev, phase |-> phase]

\* faulty variant of hideCarouselView: state.clickedEvent is not reset
hideCarouselView_KeepsClicked ==
  /\ UNCHANGED clickedEvent
  /\ clickedEventPhase' = 0
  /\ chevrons' = IF chevrons = "none" THEN "none" ELSE "fading"
  /\ updateCenterInfoNull

\* hideCarouselView(updateCenterInfo)
hideCarouselView ==
  /\ clickedEvent' = NULL
  /\ clickedEventPhase' = 0
  /\ chevrons' = IF chevrons = "none" THEN "none" ELSE "fading"
  /\ updateCenterInfoNull

\* the click handler of the svg element (main.js), without its refresh
SvgClosesView == ~chevronJustClicked /\ clickedEvent # NULL

svgClickHandler ==
  IF chevronJustClicked
  THEN /\ chevronJustClicked' = FALSE
       /\ UNCHANGED <<clickedEvent, clickedEventPhase, chevrons, cycleVars, centerInfo>>
  ELSE IF clickedEvent # NULL
  THEN /\ hideCarouselView
       /\ UNCHANGED chevronJustClicked
  ELSE UNCHANGED <<chevronJustClicked, clickedEvent, clickedEventPhase, chevrons,
                   cycleVars, centerInfo>>

-----------------------------------------------------------------------------
(* Handlers of month arcs, ring segments and period arcs *)

\* faulty variant of the month arc's mouseover: it also tags the mode
MonthMouseover_SetsMode(i) ==
  /\ hoveredMonth' = i
  /\ selectionMode' = "month"
  /\ UNCHANGED <<clickedMonths, clickedRings, hoveredRing, clickedPeriods,
                 hoveredPeriod>>
  /\ UNCHANGED <<segmentFilters, hoveredEvent, clickedEvent, clickedEventPhase,
                 cycleVars, events, chevronJustClicked, centerInfo, chevrons>>
  /\ refreshHighlights
  /\ last' = Did("monthMouseover", i, NULL)
  /\ UNCHANGED calcVars

MonthMouseover(i) ==
  /\ hoveredMonth' = i
  /\ UNCHANGED <<clickedMonths, clickedRings, hoveredRing, clickedPeriods,
                 hoveredPeriod, selectionMode>>
  /\ UNCHANGED <<segmentFilters, hoveredEvent, clickedEvent, clickedEventPhase,
                 cycleVars, events, chevronJustClicked, centerInfo, chevrons>>
  /\ refreshHighlights
  /\ last' = Did("monthMouseover", i, NULL)
  /\ UNCHANGED calcVars

\* the handler does not read which element the pointer left
MonthMouseout ==
  /\ hoveredMonth' = NoIdx
  /\ UNCHANGED <<clickedMonths, clickedRings, hoveredRing, clickedPeriods,
                 hoveredPeriod, selectionMode>>
  /\ UNCHANGED <<segmentFilters, hoveredEvent, clickedEvent, clickedEventPhase,
                 cycleVars, events, chevronJustClicked, centerInfo, chevrons>>
  /\ refreshHighlights
  /\ last' = Did("monthMouseout", NoIdx, NULL)
  /\ UNCHANGED calcVars

\* toggleMonth, refreshHighlights, then the click bubbles to the svg handler
MonthClick(i) ==
  /\ clickedRings' = {}
  /\ clickedPeriods' = {}
  /\ clickedMonths' = ToggleMember(clickedMonths, i)
  /\ selectionMode' = ModeAfterToggle("month", clickedMonths')
  /\ UNCHANGED <<hoveredMonth, hoveredRing, hoveredPeriod>>
  /\ svgClickHandler
  /\ UNCHANGED <<segmentFilters, hoveredEvent, events>>
  /\ refreshHighlights
  /\ last' = Did("toggleMonth", i, NULL)
  /\ UNCHANGED calcVars

RingMouseover(i) ==
  /\ hoveredRing' = i
  /\ UNCHANGED <<clickedMonths, hoveredMonth, clickedRings, clickedPeriods,
                 hoveredPeriod, selectionMode>>
  /\ UNCHANGED <<segmentFilters, hoveredEvent, clickedEvent, clickedEventPhase,
                 cycleVars, events, chevronJustClicked, centerInfo, chevrons>>
  /\ refreshHighlights
  /\ last' = Did("ringMouseover", i, NULL)
  /\ UNCHANGED calcVars

\* the handler does not read which element the pointer left
RingMouseout ==
  /\ hoveredRing' = NoIdx
  /\ UNCHANGED <<clickedMonths, hoveredMonth, clickedRings, clickedPeriods,
                 hoveredPeriod, selectionMode>>
  /\ UNCHANGED <<segmentFilters, hoveredEvent, clickedEvent, clickedEventPhase,
                 cycleVars, events, chevronJustClicked, centerInfo, chevrons>>
  /\ refreshHighlights
  /\ last' = Did("ringMouseout", NoIdx, NULL)
  /\ UNCHANGED calcVars

RingClick(i) ==
  /\ clickedMonths' = {}
  /\ clickedPeriods' = {}
  /\ clickedRings' = ToggleMember(clickedRings, i)
  /\ selectionMode' = ModeAfterToggle("ring", clickedRings')
  /\ UNCHANGED <<hoveredMonth, hoveredRing, hoveredPeriod>>
  /\ svgClickHandler
  /\ UNCHANGED <<segmentFilters, hoveredEvent, events>>
  /\ refreshHighlights
  /\ last' = Did("toggleRing", i, NULL)
  /\ UNCHANGED calcVars

PeriodMouseover(t) ==
  /\ hoveredPeriod' = t
  /\ UNCHANGED <<clickedMonths, hoveredMonth, clickedRings, hoveredRing,
                 clickedPeriods, selectionMode>>
  /\ UNCHANGED <<segmentFilters, hoveredEvent, clickedEvent, clickedEventPhase,
                 cycleVars, events, chevronJustClicked, centerInfo, chevrons>>
  /\ refreshHighlights
  /\ last' = Did("periodMouseover", t, NULL)
  /\ UNCHANGED calcVars

\* the handler does not read which element the pointer left
PeriodMouseout ==
  /\ hoveredPeriod' = NoIdx
  /\ UNCHANGED <<clickedMonths, hoveredMonth, clickedRings, hoveredRing,
                 clickedPeriods, selectionMode>>
  /\ UNCHANGED <<segmentFilters, hoveredEvent, clickedEvent, clickedEventPhase,
                 cycleVars, events, chevronJustClicked, centerInfo, chevrons>>
  /\ refreshHighlights
  /\ last' = Did("periodMouseout", NoIdx, NULL)
  /\ UNCHANGED calcVars

PeriodClick(t) ==
  /\ clickedMonths' = {}
  /\ clickedRings' = {}
  /\ clickedPeriods' = ToggleMember(clickedPeriods, t)
  /\ selectionMode' = ModeAfterToggle("period", clickedPeriods')
  /\ UNCHANGED <<hoveredMonth, hoveredRing, hoveredPeriod>>
  /\ svgClickHandler
  /\ UNCHANGED <<segmentFilters, hoveredEvent, events>>
  /\ refreshHighlights
  /\ last' = Did("togglePeriod", t, NULL)
  /\ UNCHANGED calcVars

-----------------------------------------------------------------------------
(* Handlers of the event markers (events.js renderEvents) *)

\* faulty variant of the mouseover handler: a clicked event does not stop it
EventMouseoverHandler_NoGuard(ev) ==
  /\ ev \in Markers /\ ev \in events
  /\ hoveredEvent' = ev
  /\ startHoverCycle(ev, timers)
  /\ markerDimmed' = Markers \ {ev}
  /\ markerActive' = markerActive \cup {ev}
  /\ last' = Did("eventMouseover", NoIdx, ev)
  /\ UNCHANGED <<segmentFilters, selVars, clickedEvent, clickedEventPhase, events,
                 chevronJustClicked, chevrons, connVars, axisDomVars>>
  /\ UNCHANGED calcOnlyVars

\* the mouseover handler of the marker of ev; a marker with display none gets
\* no pointer
EventMouseoverHandler(ev) ==
  /\ ev \in Markers /\ ev \in events
  /\ IF clickedEvent # NULL
     THEN /\ UNCHANGED <<hoveredEvent, cycleVars, centerInfo, markerVars>>
          /\ last' = Did("eventMouseover", NoIdx, ev)
     ELSE /\ hoveredEvent' = ev
          /\ startHoverCycle(ev, timers)
          /\ markerDimmed' = Markers \ {ev}
          /\ markerActive' = markerActive \cup {ev}
          /\ last' = Did("eventMouseover", NoIdx, ev)
  /\ UNCHANGED <<segmentFilters, selVars, clickedEvent, clickedEventPhase, events,
                 chevronJustClicked, chevrons, connVars, axisDomVars>>
  /\ UNCHANGED calcOnlyVars

\* mouseover on the marker of ev, delivered freely
EventMouseover(ev) == EventMouseoverHandler(ev) /\ UNCHANGED pointerOver

\* the mouseout handler of the marker of ev
EventMouseoutHandler(ev) ==
  /\ ev \in Markers
  /\ UNCHANGED <<segmentFilters, selVars, clickedEvent, clickedEventPhase, events,
                 chevronJustClicked, chevrons>>
  /\ IF clickedEvent # NULL
     THEN /\ UNCHANGED <<hoveredEvent, cycleVars, centerInfo, domVars>>
          /\ last' = Did("eventMouseout", NoIdx, ev)
     ELSE /\ hoveredEvent' = NULL
          /\ updateCenterInfoNull
          /\ refreshHighlights
          /\ last' = Did("eventMouseout", NoIdx, ev)
  /\ UNCHANGED calcOnlyVars

\* mouseout on the marker of ev, delivered freely
EventMouseout(ev) == EventMouseoutHandler(ev) /\ UNCHANGED pointerOver

\* faulty variant of the marker's click: opening a view drops the selection
EventClick_DropsSelection(ev) ==
  /\ ev \in Markers /\ ev \in events
  /\ UNCHANGED <<segmentFilters, hoveredMonth, hoveredRing, hoveredPeriod,
                 hoveredEvent, events, chevronJustClicked>>
  /\ IF clickedEvent = ev
     THEN /\ hideCarouselView
          /\ UNCHANGED <<clickedMonths, clickedRings, clickedPeriods, selectionMode>>
          /\ refreshHighlights
          /\ last' = Did("eventClick", NoIdx, ev)
     ELSE /\ clickedEvent' = ev
          /\ clickedEventPhase' = 0
          /\ clickedMonths' = {} /\ clickedRings' = {} /\ clickedPeriods' = {}
          /\ selectionMode' = NULL
          /\ updateCarouselContent(ev, 0)
          /\ chevrons' = "shown"
          /\ markerDimmed' = Markers \ {ev}
          /\ markerActive' = markerActive \cup {ev}
          /\ UNCHANGED <<connVars, axisDomVars>>
          /\ last' = Did("eventClick", NoIdx, ev)
  /\ UNCHANGED calcVars

\* click on the marker of ev (propagation stopped)
EventClick(ev) ==
  /\ ev \in Markers /\ ev \in events
  /\ UNCHANGED <<segmentFilters, selVars, hoveredEvent, events, chevronJustClicked>>
  /\ IF clickedEvent = ev
     THEN /\ hideCarouselView
          /\ refreshHighlights
          /\ last' = Did("eventClick", NoIdx, ev)
     ELSE /\ clickedEvent' = ev
          /\ clickedEventPhase' = 0
          /\ updateCarouselContent(ev, 0)
          /\ chevrons' = "shown"
          /\ markerDimmed' = Markers \ {ev}
          /\ markerActive' = markerActive \cup {ev}
          /\ UNCHANGED <<connVars, axisDomVars>>
          /\ last' = Did("eventClick", NoIdx, ev)
  /\ UNCHANGED calcVars

\* click on the left (-1) or right (+1) chevron: setChevronClicked, then
\* navigateCarousel(direction); propagation stopped
ChevronClick(direction) ==
  /\ chevrons # "none"
  /\ chevronJustClicked' = TRUE
  /\ IF clickedEvent = NULL \/ clickedEvent \notin AllVisibleEvents
     THEN UNCHANGED <<clickedEventPhase, cycleVars, centerInfo>>
     ELSE /\ clickedEventPhase' = NextPhase(clickedEventPhase, direction)
          /\ updateCarouselContent(clickedEvent, clickedEventPhase')
  /\ UNCHANGED <<segmentFilters, selVars, hoveredEvent, clickedEvent, events,
                 chevrons, domVars>>
  /\ last' = Did("chevronClick", direction, NULL)
  /\ UNCHANGED calcVars

\* the fade-out transition of hideCarouselView ends: the chevrons are removed
ChevronsRemoved ==
  /\ chevrons = "fading"
  /\ chevrons' = "none"
  /\ UNCHANGED <<segmentFilters, selVars, hoveredEvent, clickedEvent,
                 clickedEventPhase, cycleVars, events, chevronJustClicked,
                 centerInfo, domVars>>
  /\ last' = Did("chevronsRemoved", NoIdx, NULL)
  /\ UNCHANGED calcVars

\* click on the svg where no handler stops it
BackgroundClick ==
  /\ svgClickHandler
  /\ UNCHANGED <<segmentFilters, selVars, hoveredEvent, events>>
  /\ IF SvgClosesView THEN refreshHighlights ELSE UNCHANGED domVars
  /\ last' = Did(IF chevronJustClicked THEN "svgClickSwallowed"
                 ELSE IF clickedEvent # NULL THEN "svgClickClose" ELSE "svgClickIdle",
                 NoIdx, NULL)
  /\ UNCHANGED calcVars

\* click on an enabled segment button: the filter flips, then applyFilter
SegmentButtonClick(x) ==
  /\ HasFacet(x)
  /\ segmentFilters' = [segmentFilters EXCEPT ![x] = ~segmentFilters[x]]
  /\ hoveredEvent' = NULL
  /\ events' = getFilteredEvents(segmentFilters')
  /\ UNCHANGED <<selVars, clickedEvent, clickedEventPhase, cycleVars,
                 chevronJustClicked, centerInfo, chevrons, domVars>>
  /\ last' = Did("segmentButtonClick", NoIdx, x)
  /\ UNCHANGED calcVars

\* click on the reset button: resetSelections, centre content and chevrons
\* removed, marker classes cleared, refreshHighlights
ResetClick ==
  /\ clickedMonths' = {}
  /\ clickedRings' = {}
  /\ clickedPeriods' = {}
  /\ selectionMode' = NULL
  /\ clickedEvent' = NULL
  /\ clickedEventPhase' = 0
  /\ clearHoverCycle
  /\ centerInfo' = NoInfo
  /\ chevrons' = "none"
  /\ UNCHANGED <<hoveredMonth, hoveredRing, hoveredPeriod>>
  /\ UNCHANGED <<segmentFilters, hoveredEvent, events, chevronJustClicked>>
  /\ refreshHighlights
  /\ last' = Did("reset", NoIdx, NULL)
  /\ UNCHANGED calcVars

\* faulty variant of the callbacks' guard: the hovered event is not compared
CallbackActs_Always(t) == TRUE

\* the guard of each callback of startHoverCycle: state.hoveredEvent === ev.id
CallbackActs(t) == hoveredEvent = t.ev

\* a callback of startHoverCycle runs; callbacks scheduled together run in
\* the order of their delays
TimerFires(t) ==
  /\ t \in timers
  /\ \A u \in timers : u.ev = t.ev => u.delay >= t.delay
  /\ IF CallbackActs(t)
     THEN /\ IF t.delay = Delay3
             THEN startHoverCycle(t.ev, timers \ {t})
             ELSE /\ timers' = timers \ {t}
                  /\ centerInfo' = [ev |-> t.ev, phase |-> IF t.delay = Delay1 THEN 1 ELSE 2]
                  /\ currentHoverPhase' = IF t.delay = Delay1 THEN 1 ELSE 2
                  /\ UNCHANGED hoverCycleTimeouts
          /\ last' = Did("timerFires", t.delay, t.ev)
     ELSE /\ timers' = timers \ {t}
          /\ UNCHANGED <<hoverCycleTimeouts, currentHoverPhase, centerInfo>>
          /\ last' = Did("timerFires", t.delay, t.ev)
  /\ UNCHANGED <<segmentFilters, selVars, hoveredEvent, clickedEvent,
                 clickedEventPhase, events, chevronJustClicked, chevrons, domVars>>
  /\ UNCHANGED calcVars

-----------------------------------------------------------------------------
(* The wheel's inputs, in two groups: the axis handlers with the facet      *)
(* filter and reset, and the event-marker, carousel and timer handlers     *)
(* with one axis whose click bubbles to the svg handler.                   *)

NextSel ==
  \/ \E i \in MonthInputs : MonthMouseover(i)
  \/ MonthMouseout
  \/ \E i \in MonthInputs : MonthClick(i)
  \/ \E i \in RingInputs : RingMouseover(i)
  \/ RingMouseout
  \/ \E i \in RingInputs : RingClick(i)
  \/ \E t \in Periods : PeriodMouseover(t)
  \/ PeriodMouseout
  \/ \E t \in Periods : PeriodClick(t)
  \/ \E x \in Facets : SegmentButtonClick(x)
  \/ ResetClick

NextCarousel ==
  \/ \E ev \in AllVisibleEvents : EventMouseover(ev)
  \/ \E ev \in AllVisibleEvents : EventMouseout(ev)
  \/ \E ev \in AllVisibleEvents : EventClick(ev)
  \/ \E direction \in {-1, 1} : ChevronClick(direction)
  \/ ChevronsRemoved
  \/ BackgroundClick
  \/ \E x \in Facets : SegmentButtonClick(x)
  \/ ResetClick
  \/ \E t \in timers : TimerFires(t)
  \/ MonthClick(0)

\* the axis handlers together with the marker click: hovering and toggling
\* while a detail view is open
NextHover ==
  \/ \E i \in MonthInputs : MonthMouseover(i)
  \/ MonthMouseout
  \/ \E i \in MonthInputs : MonthClick(i)
  \/ \E i \in RingInputs : RingMouseover(i)
  \/ RingMouseout
  \/ \E i \in RingInputs : RingClick(i)
  \/ \E t \in Periods : PeriodMouseover(t)
  \/ PeriodMouseout
  \/ \E t \in Periods : PeriodClick(t)
  \/ \E ev \in AllVisibleEvents : EventClick(ev)

\* The pointer enters and leaves the markers in pairs, and a click goes to
\* what is under the pointer: a marker, or the background or a chevron when
\* the pointer is over no marker.  The reset is also reached by keyboard.
PointerEnters(ev) ==
  /\ pointerOver = NULL
  /\ pointerOver' = ev
  /\ EventMouseoverHandler(ev)

PointerLeaves(ev) ==
  /\ pointerOver = ev
  /\ pointerOver' = NULL
  /\ EventMouseoutHandler(ev)

ClickUnderPointer(ev) == pointerOver = ev /\ EventClick(ev)

ClickOnBackground == pointerOver = NULL /\ BackgroundClick

ClickOnChevron(direction) == pointerOver = NULL /\ ChevronClick(direction)

NextPointer ==
  \/ \E ev \in AllVisibleEvents : PointerEnters(ev)
  \/ \E ev \in AllVisibleEvents : PointerLeaves(ev)
  \/ \E ev \in AllVisibleEvents : ClickUnderPointer(ev)
  \/ ClickOnBackground
  \/ \E direction \in {-1, 1} : ClickOnChevron(direction)
  \/ ChevronsRemoved
  \/ ResetClick
  \/ \E t \in timers : TimerFires(t)

SpecPointer == Init /\ [][NextPointer]_vars

\* the host runs a pending callback when its delay is over
SpecHoverLoop == SpecPointer /\ WF_vars(\E t \in timers : TimerFires(t))

SpecSel == Init /\ [][NextSel]_vars

SpecCarousel == Init /\ [][NextCarousel]_vars

SpecHover == Init /\ [][NextHover]_vars

-----------------------------------------------------------------------------
(* events.js calculateLabelPositions and svg-setup.js getRadius.  A radius  *)
(* is kept as a whole number of RadiusUnits-th parts (ringGap and ringGap/2 *)
(* need not be whole), a vertical label position as a number of halves.     *)

\* RING_MAP of config.js
RING_MAP ==
  [langtidsplanering |-> 0, planering |-> 1, genomforande_och_uppfoljning |-> 2,
   uppfoljning_och_analys |-> 3, manad |-> 4]

\* JavaScript values of the fields ring and ring_2: a string, a number, or
\* undefined / null
JsString(str) == [t |-> "string", s |-> str, n |-> 0]
JsNumber(num) == [t |-> "number", s |-> "", n |-> num]
JsUndefined == [t |-> "undefined", s |-> "", n |-> 0]

\* faulty variant of ringIdxOf: an unknown name resolves to index 1
ringIdxOf_UnknownIsOne(ring) ==
  IF ring.t = "string"
  THEN (IF ring.s \in DOMAIN RING_MAP THEN RING_MAP[ring.s] ELSE 1)
  ELSE ring.n

\* (typeof ev.ring === 'string') ? (RING_MAP[ev.ring] ?? 0) : ev.ring
ringIdxOf(ring) ==
  IF ring.t = "string"
  THEN (IF ring.s \in DOMAIN RING_MAP THEN RING_MAP[ring.s] ELSE 0)
  ELSE ring.n

\* (typeof ev.ring_2 === 'string') ? (RING_MAP[ev.ring_2] ?? ringIdx)
\*                                 : (ev.ring_2 ?? ringIdx)
ringIdx2Of(ring_2, ringIdx) ==
  IF ring_2.t = "string"
  THEN (IF ring_2.s \in DOMAIN RING_MAP THEN RING_MAP[ring_2.s] ELSE ringIdx)
  ELSE IF ring_2.t = "number" THEN ring_2.n
  ELSE ringIdx

\* Math.max
MathMax(a, b) == IF a >= b THEN a ELSE b

\* faulty variant of finalLineIdx: equal indices are not moved to the outer edge
finalLineIdx_NoOuterEdge(ringIdx, ringIdx2) == MathMax(ringIdx, ringIdx2)

\* faulty variant of finalLineIdx: the lower of two different indices is taken
finalLineIdx_Lower(ringIdx, ringIdx2) ==
  IF ringIdx = ringIdx2 THEN ringIdx + 1
  ELSE (IF ringIdx <= ringIdx2 THEN ringIdx ELSE ringIdx2)

\* boundaryIdx and finalLineIdx of calculateLabelPositions
finalLineIdx(ringIdx, ringIdx2) ==
  IF ringIdx = ringIdx2 THEN ringIdx + 1 ELSE MathMax(ringIdx, ringIdx2)

\* the parts a radius is counted in: ringGap / 2 is one part
RadiusUnits(lay) == 2 * lay.ringCount

\* getRadius(ring, layout, RING_MAP), in RadiusUnits-th parts
getRadius(ring, lay) ==
  IF ring.t = "string" /\ ring.s = "manad"
  THEN lay.ringCount * (lay.monthBandR0 + lay.monthBandR1)
  ELSE RadiusUnits(lay) * lay.ringInner
         + (2 * ringIdxOf(ring) + 1) * (lay.ringOuter - lay.ringInner)

\* r of calculateLabelPositions, in RadiusUnits-th parts
markerRadius(ev, lay) ==
  IF ev.placering = "linje"
  THEN LET ringIdx == ringIdxOf(ev.ring)
           ringIdx2 == ringIdx2Of(ev.ring_2, ringIdx)
       IN  RadiusUnits(lay) * lay.ringInner
             + 2 * finalLineIdx(ringIdx, ringIdx2) * (lay.ringOuter - lay.ringInner)
  ELSE getRadius(ev.ring, lay)

\* labelData.filter(side).sort((a, b) => a.ly - b.ly): the indices of one
\* side in the order of the (stable) sort
sortedColumn(data, isLeft) ==
  LET col == {j \in DOMAIN data : data[j].isLeft = isLeft}
      Before(k, j) == data[k].ly < data[j].ly \/ (data[k].ly = data[j].ly /\ k < j)
      rank(j) == Cardinality({k \in col : Before(k, j)})
  IN  [i \in 1..Cardinality(col) |-> CHOOSE j \in col : rank(j) = i - 1]

\* faulty variant of distributeEvenly: the column starts at 0
distributeEvenly_FromZero(subset, spacing) ==
  [i \in 1..Len(subset) |-> 2 * (i - 1) * spacing]

\* distributeEvenly(subset, spacing): the ly given to the i-th item, in halves
distributeEvenly(subset, spacing) ==
  LET totalHeight == (Len(subset) - 1) * spacing
      startY2 == -totalHeight
  IN  [i \in 1..Len(subset) |-> startY2 + 2 * (i - 1) * spacing]

\* calculateLabelPositions(events, layout, angleScale, labelR); the angle of
\* an event enters through its side isLeft and its key approxY
calculateLabelPositions(evs, lay) ==
  LET data == [j \in DOMAIN evs |->
                 [r |-> markerRadius(evs[j], lay), ly |-> 2 * evs[j].approxY,
                  isLeft |-> evs[j].isLeft]]
      leftLabels == sortedColumn(data, TRUE)
      rightLabels == sortedColumn(data, FALSE)
      leftLy == distributeEvenly(leftLabels, lay.labelVerticalSpacingLeft)
      rightLy == distributeEvenly(rightLabels, lay.labelVerticalSpacingRight)
      PlaceIn(subset, j) == CHOOSE i \in DOMAIN subset : subset[i] = j
  IN  [j \in DOMAIN evs |->
         [r |-> data[j].r,
          ly |-> IF data[j].isLeft THEN leftLy[PlaceIn(leftLabels, j)]
                 ELSE rightLy[PlaceIn(rightLabels, j)],
          isLeft |-> data[j].isLeft]]

\* the call calculateLabelPositions(events, layout, angleScale, labelR) of
\* initWheel returns
CalculateLabelPositions ==
  /\ labelData' = calculateLabelPositions(labelEvents, layout)
  /\ last' = Did("calculateLabelPositions", NoIdx, NULL)
  /\ UNCHANGED <<wheelVars, config, activeWeeksResult, weekRingTotal, weekRange,
                 labelEvents, layout, elbowCall, angleCall, dateWeek>>

\* the values of ring tried: every ring name, an unknown name, an index
RingValues ==
  {JsString(n) : n \in DOMAIN RING_MAP} \cup {JsString("okand"), JsNumber(2)}

\* the values of ring_2 tried: those of ring, or none
Ring2Values == RingValues \cup {JsUndefined}

\* one event with every combination of ring, ring_2 and placering
RadiusEvents ==
  {[ring |-> a, ring_2 |-> b, placering |-> pl, approxY |-> 0, isLeft |-> FALSE] :
     a \in RingValues, b \in Ring2Values, pl \in {"linje", "center"}}

\* ring bands tried: the default one, a wider one, and one ring more
RadiusLayouts ==
  {[DefaultLayout EXCEPT !.ringOuter = o, !.ringCount = c] :
     o \in {RingOuterDefault, RingOuterDefault + 1}, c \in {RingCount, RingCount + 1}}

InitRadius ==
  /\ InitWheel
  /\ config = WheelConfig
  /\ layout \in RadiusLayouts
  /\ labelEvents \in {<<e>> : e \in RadiusEvents}
  /\ labelData = <<>>
  /\ elbowCall = NoElbowCall
  /\ angleCall = NoAngleCall
  /\ dateWeek = NoDateWeek
  /\ activeWeeksResult = NoWeeksCall
  /\ weekRingTotal = 0
  /\ weekRange = NoWeekRange

NextRadius == CalculateLabelPositions

SpecRadius == InitRadius /\ [][NextRadius]_vars

\* the events of a label column test: a side and a key each
LabelEvents ==
  {[ring |-> JsString("planering"), ring_2 |-> JsUndefined, placering |-> "center",
    approxY |-> k, isLeft |-> side] : k \in 0..MaxKey, side \in BOOLEAN}

\* the layouts of a label column test: a spacing per side
LabelLayouts ==
  {[DefaultLayout EXCEPT !.labelVerticalSpacingLeft = sl,
                         !.labelVerticalSpacingRight = sr] :
     sl \in 0..MaxSpacing, sr \in 0..MaxSpacing}

InitLabels ==
  /\ InitWheel
  /\ config = WheelConfig
  /\ layout \in LabelLayouts
  /\ labelEvents \in UNION {[1..n -> LabelEvents] : n \in 0..MaxLabels}
  /\ labelData = <<>>
  /\ elbowCall = NoElbowCall
  /\ angleCall = NoAngleCall
  /\ dateWeek = NoDateWeek
  /\ activeWeeksResult = NoWeeksCall
  /\ weekRingTotal = 0
  /\ weekRange = NoWeekRange

NextLabels == CalculateLabelPositions

SpecLabels == InitLabels /\ [][NextLabels]_vars

-----------------------------------------------------------------------------
(* events.js calculateElbow.  Coordinates are whole numbers.  An angle is   *)
(* kept as the direction it points in: the shortest whole-number vector of  *)
(* that direction.  The inputs are those whose roots are rational, so the   *)
(* point of intersection has a direction of that kind.  The interpolated    *)
(* angle  from + turn * factor  is kept as its three parts, where turn is   *)
(* the shortest turn that takes the direction `from` to `toward`.           *)

Abs(n) == IF n < 0 THEN -n ELSE n

RECURSIVE Gcd(_, _)
Gcd(m, n) == IF n = 0 THEN m ELSE Gcd(n, m % n)

\* Math.atan2(y, x), as a direction; (x, y) is not the origin
atan2(y, x) ==
  LET g == Gcd(Abs(x), Abs(y))
  IN  <<x \div g, y \div g>>

\* the whole number s with s * s <= n < (s + 1) * (s + 1), sought in lo..hi
RECURSIVE SqrtBetween(_, _, _)
SqrtBetween(n, lo, hi) ==
  IF lo = hi THEN lo
  ELSE LET mid == (lo + hi + 1) \div 2
       IN  IF mid * mid <= n THEN SqrtBetween(n, mid, hi)
           ELSE SqrtBetween(n, lo, mid - 1)

\* Math.sqrt of a whole number, rounded down; 46340 is the largest root whose
\* square is a 32-bit number
IntSqrt(n) == SqrtBetween(n, 0, IF n < 46340 THEN n ELSE 46340)

\* the curve factor of the month group of the event
connectorCurveFactorOf(eventMonth, lay) ==
  IF eventMonth \in {0, 11} THEN lay.jd_connectorCurveFactor
  ELSE IF eventMonth \in {2, 3, 8, 9} THEN lay.maso_connectorCurveFactor
  ELSE IF eventMonth \in {1, 4, 7, 10} THEN lay.fman_connectorCurveFactor
  ELSE lay.jj_connectorCurveFactor

\* the coefficients of the quadratic of calculateElbow
ElbowCoefs(ev, lineEndX, lineEndY, lay) ==
  LET dx == lineEndX - ev.x
      dy == lineEndY - ev.y
      a_coef == dx * dx + dy * dy
      b_coef == 2 * (ev.x * dx + ev.y * dy)
      c_coef == ev.x * ev.x + ev.y * ev.y
                  - lay.connectorElbowRadius * lay.connectorElbowRadius
  IN  [dx |-> dx, dy |-> dy, a |-> a_coef, b |-> b_coef, c |-> c_coef,
       discriminant |-> b_coef * b_coef - 4 * a_coef * c_coef]

\* straightLineAngle of calculateElbow when the line meets the circle: the
\* roots are t1 = n1 / (2 a) and t2 = n2 / (2 a)
IntersectionAngle(ev, q) ==
  LET sqrtDisc == IntSqrt(q.discriminant)
      n1 == -q.b - sqrtDisc
      n2 == -q.b + sqrtDisc
      Inside(n) == n > 0 /\ n < 2 * q.a
      bestN == IF Inside(n1) THEN n1
               ELSE IF Inside(n2) THEN n2
               ELSE IF Abs(n1 - q.a) < Abs(n2 - q.a) THEN n1 ELSE n2
  IN  atan2(2 * q.a * ev.y + bestN * q.dy, 2 * q.a * ev.x + bestN * q.dx)

\* faulty variant of calculateElbow: without an intersection the straight
\* line angle is 0
calculateElbow_FallbackZero(ev, lineEndX, lineEndY, lay) ==
  LET q == ElbowCoefs(ev, lineEndX, lineEndY, lay)
      straightLineAngle ==
        IF q.discriminant >= 0 /\ q.a # 0 THEN IntersectionAngle(ev, q)
        ELSE <<1, 0>>
  IN  [radius |-> lay.connectorElbowRadius, from |-> straightLineAngle,
       toward |-> ev.a, factor |-> connectorCurveFactorOf(ev.month, lay)]

\* calculateElbow(ev, lineEndX, lineEndY, config, layout): the elbow is at
\* the radius connectorElbowRadius and the angle
\* straightLineAngle + angleDiff * connectorCurveFactor
calculateElbow(ev, lineEndX, lineEndY, lay) ==
  LET currentElbowAngle == ev.a
      q == ElbowCoefs(ev, lineEndX, lineEndY, lay)
      straightLineAngle ==
        IF q.discriminant >= 0 /\ q.a # 0 THEN IntersectionAngle(ev, q)
        ELSE currentElbowAngle
  IN  [radius |-> lay.connectorElbowRadius, from |-> straightLineAngle,
       toward |-> currentElbowAngle,
       factor |-> connectorCurveFactorOf(ev.month, lay)]

\* the elbow is at the angle a: no turn is left to take, or all of the turn
\* to a is taken, or none of a turn away from a
ElbowAngleIs(elbow, a) ==
  \/ elbow.from = a /\ elbow.toward = a
  \/ elbow.toward = a /\ elbow.factor.num = elbow.factor.den
  \/ elbow.from = a /\ elbow.factor.num = 0

\* the call calculateElbow(ev, lineEndX, lineEndY, config, layout) of
\* renderEvents returns
CalculateElbow ==
  /\ ~elbowCall.called
  /\ elbowCall' =
       [elbowCall EXCEPT
          !.called = TRUE,
          !.elbow = calculateElbow([x |-> elbowCall.x, y |-> elbowCall.y,
                                    a |-> elbowCall.a, month |-> elbowCall.month],
                                   elbowCall.lineEndX, elbowCall.lineEndY, layout)]
  /\ last' = Did("calculateElbow", NoIdx, NULL)
  /\ UNCHANGED <<wheelVars, config, activeWeeksResult, weekRingTotal, weekRange,
                 labelEvents, layout, labelData, angleCall, dateWeek>>

\* the directions of the markers tried: points of radius 5
MarkerPoints ==
  {<<5, 0>>, <<0, 5>>, <<-5, 0>>, <<0, -5>>, <<3, 4>>, <<-4, 3>>, <<-3, -4>>, <<4, -3>>}

\* the coordinates of the label ends tried
EndCoordinates == {-12, -5, 0, 5, 12}

\* the layouts tried: two elbow circles, and a curve factor per month group
ElbowLayouts ==
  {[DefaultLayout EXCEPT !.connectorElbowRadius = rad,
                         !.maso_connectorCurveFactor = [num |-> 1, den |-> 2],
                         !.fman_connectorCurveFactor = [num |-> 0, den |-> 1],
                         !.jj_connectorCurveFactor = [num |-> 3, den |-> 4]] :
     rad \in {5, 13}}

\* the root of the quadratic is rational, or there is none
RationalRoots(ev, lineEndX, lineEndY, lay) ==
  LET q == ElbowCoefs(ev, lineEndX, lineEndY, lay)
  IN  IF q.discriminant < 0 \/ q.a = 0 THEN TRUE
      ELSE IntSqrt(q.discriminant) * IntSqrt(q.discriminant) = q.discriminant

InitElbow ==
  /\ InitWheel
  /\ config = WheelConfig
  /\ layout \in ElbowLayouts
  /\ activeWeeksResult = NoWeeksCall
  /\ weekRingTotal = 0
  /\ weekRange = NoWeekRange
  /\ labelEvents = <<>>
  /\ labelData = <<>>
  /\ angleCall = NoAngleCall
  /\ dateWeek = NoDateWeek
  /\ \E pt \in MarkerPoints, k \in 1..MaxMarkerScale, eventMonth \in Months :
       \E ex \in EndCoordinates \cup {k * pt[1]}, ey \in EndCoordinates \cup {k * pt[2]} :
         /\ RationalRoots([x |-> k * pt[1], y |-> k * pt[2]], ex, ey, layout)
         /\ elbowCall = [NoElbowCall EXCEPT !.x = k * pt[1], !.y = k * pt[2],
                                            !.a = atan2(pt[2], pt[1]),
                                            !.month = eventMonth,
                                            !.lineEndX = ex, !.lineEndY = ey]

NextElbow == CalculateElbow

SpecElbow == InitElbow /\ [][NextElbow]_vars

-----------------------------------------------------------------------------
(* rings.js renderWeekRing and utils.js getIsoWeekRange over several years. *)
(* A Date is a day number (days since 1970-01-01); every Date built here is *)
(* a local midnight.                                                        *)

\* faulty variant of getIsoWeekRange: the start is not clamped to January 1
getIsoWeekRange_NoClamp(year, week) ==
  LET d == DateOf(year, 0, 4)
      day == IF GetDay(d) = 0 THEN 7 ELSE GetDay(d)
      week1Monday == d - day + 1
      weekMonday == week1Monday + (week - 1) * 7
      weekSunday == weekMonday + 6
      dec31 == DateOf(year, 11, 31)
  IN  [start |-> weekMonday,
       end |-> IF weekSunday > dec31 THEN dec31 ELSE weekSunday]

\* getIsoWeekRange(year, week)
getIsoWeekRange(year, week) ==
  LET d == DateOf(year, 0, 4)
      day == IF GetDay(d) = 0 THEN 7 ELSE GetDay(d)
      week1Monday == d - day + 1
      weekMonday == week1Monday + (week - 1) * 7
      jan1 == DateOf(year, 0, 1)
      start == IF weekMonday < jan1 THEN jan1 ELSE weekMonday
      weekSunday == weekMonday + 6
      dec31 == DateOf(year, 11, 31)
      end == IF weekSunday > dec31 THEN dec31 ELSE weekSunday
  IN  [start |-> start, end |-> end]

\* renderWeekRing reads config.year and fixes totalWeeks
RenderWeekRing ==
  /\ weekRingTotal' = totalWeeksOf(config.year)
  /\ weekRange' = NoWeekRange
  /\ last' = Did("renderWeekRing", NoIdx, NULL)
  /\ UNCHANGED <<wheelVars, config, activeWeeksResult, labelEvents, layout, labelData,
                 elbowCall, angleCall, dateWeek>>

\* one turn of the loop of renderWeekRing: getIsoWeekRange(year, w) for a
\* week w of 1..totalWeeks
WeekRingTurn(w) ==
  /\ w <= weekRingTotal
  /\ \E range \in {getIsoWeekRange(config.year, w)} :
       weekRange' = [called |-> TRUE, week |-> w,
                     start |-> range.start, end |-> range.end]
  /\ last' = Did("getIsoWeekRange", NoIdx, NULL)
  /\ UNCHANGED <<wheelVars, config, activeWeeksResult, weekRingTotal, labelEvents,
                 layout, labelData, elbowCall, angleCall, dateWeek>>

\* the years config.year is drawn from
CalendarYears == (Year - YearSpan)..(Year + YearSpan)

InitCalendar ==
  /\ InitWheel
  /\ config \in {[WheelConfig EXCEPT !.year = y] : y \in CalendarYears}
  /\ layout = DefaultLayout
  /\ activeWeeksResult = NoWeeksCall
  /\ weekRingTotal = 0
  /\ weekRange = NoWeekRange
  /\ labelEvents = <<>>
  /\ labelData = <<>>
  /\ elbowCall = NoElbowCall
  /\ angleCall = NoAngleCall
  /\ dateWeek = NoDateWeek

NextCalendar ==
  \/ RenderWeekRing
  \/ \E w \in 1..53 : WeekRingTurn(w)

SpecCalendar == InitCalendar /\ [][NextCalendar]_vars

-----------------------------------------------------------------------------
(* svg-setup.js createAngleScale: the linear scale from the dates of the    *)
(* year to the angles from -pi/2 to 3 pi/2.  With n the days of the year an *)
(* angle is kept as a whole number of (pi / 2) / n: -pi/2 is -n, and        *)
(* 3 pi/2 is 3 n.                                                            *)

\* the days of the domain [new Date(year, 0, 1), new Date(year + 1, 0, 1)]
DomainDays(year) == DateOf(year + 1, 0, 1) - DateOf(year, 0, 1)

\* faulty variant of the angle scale: the range is given the other way round
angleScale_Reversed(year, date) ==
  3 * DomainDays(year) - 4 * (date - DateOf(year, 0, 1))

\* createAngleScale(year)(date), in parts of (pi / 2) / DomainDays(year)
angleScale(year, date) ==
  -DomainDays(year) + 4 * (date - DateOf(year, 0, 1))

\* angleScale(d) returns for a date d of the year
ApplyAngleScale(d) ==
  /\ angleCall' = [called |-> TRUE, date |-> d, angle |-> angleScale(config.year, d)]
  /\ last' = Did("angleScale", NoIdx, NULL)
  /\ UNCHANGED <<wheelVars, config, activeWeeksResult, weekRingTotal, weekRange,
                 labelEvents, layout, labelData, elbowCall, dateWeek>>

\* the dates of the year of the configuration
DatesOfYear(year) == DateOf(year, 0, 1)..(DateOf(year + 1, 0, 1) - 1)

NextAngle == \E d \in DatesOfYear(config.year) : ApplyAngleScale(d)

\* the angle scale over the years of the week ring
SpecAngle == InitCalendar /\ [][NextAngle]_vars

-----------------------------------------------------------------------------
(* The week number of a date (utils.js getWeekNumber, as refreshHighlights  *)
(* takes it of an event's date) and the range of the week arc of that       *)
(* number (getIsoWeekRange, as renderWeekRing draws it).                    *)

\* getWeekNumber(d) returns for a date d of the year, and the range of the
\* week of that number is taken
WeekOfDate(d) ==
  /\ \E w \in {getWeekNumber(d)} :
       \E range \in {getIsoWeekRange(config.year, w)} :
         dateWeek' = [called |-> TRUE, date |-> d, week |-> w,
                      start |-> range.start, end |-> range.end]
  /\ last' = Did("getWeekNumber", NoIdx, NULL)
  /\ UNCHANGED <<wheelVars, config, activeWeeksResult, weekRingTotal, weekRange,
                 labelEvents, layout, labelData, elbowCall, angleCall>>

NextWeekOfDate == \E d \in DatesOfYear(config.year) : WeekOfDate(d)

SpecWeekOfDate == InitCalendar /\ [][NextWeekOfDate]_vars

-----------------------------------------------------------------------------
(* getActiveWeeksFromPeriods on its own: any divider list, any set of       *)
(* period indices of it.                                                    *)

\* the week numbers a divider list may hold
DividerValues == {1, 14, 27, 40}

\* the divider lists tried; normalizeConfig gives a data document without
\* periodDividerWeeks the empty list
DividerLists ==
  UNION {[1..n -> DividerValues] : n \in 0..MaxDividers}

\* the years tried: one the code gives 52 weeks and the one it gives 53
WeekYears == {Year - 1, Year}

InitWeeks ==
  /\ InitWheel
  /\ config \in {[year |-> y, periodDividerWeeks |-> d] :
                    y \in WeekYears, d \in DividerLists}
  /\ layout = DefaultLayout
  /\ activeWeeksResult = NoWeeksCall
  /\ weekRingTotal = 0
  /\ weekRange = NoWeekRange
  /\ labelEvents = <<>>
  /\ labelData = <<>>
  /\ elbowCall = NoElbowCall
  /\ angleCall = NoAngleCall
  /\ dateWeek = NoDateWeek

\* a call getActiveWeeksFromPeriods(P, config) returns
GetActiveWeeks(P) ==
  /\ activeWeeksResult' =
       [called |-> TRUE, periods |-> P,
        weeks |-> getActiveWeeksFromPeriodsOf(P, config)]
  /\ last' = Did("getActiveWeeksFromPeriods", NoIdx, NULL)
  /\ UNCHANGED <<wheelVars, config, weekRingTotal, weekRange, labelEvents,
                 layout, labelData, elbowCall, angleCall, dateWeek>>

NextWeeks ==
  \E P \in SUBSET (0..(Len(config.periodDividerWeeks) - 1)) : GetActiveWeeks(P)

SpecWeeks == InitWeeks /\ [][NextWeeks]_vars

-----------------------------------------------------------------------------
(* Claims *)

\* the click-sets, per axis, before and after a step
C1_Flip(before, after, i) ==
  /\ (i \in after) = (i \notin before)
  /\ after \ {i} = before \ {i}

\* the contract of C1 on one step
C1_Step ==
      /\ last'.op = "toggleMonth" =>
          /\ clickedRings' = {} /\ clickedPeriods' = {}
          /\ C1_Flip(clickedMonths, clickedMonths', last'.idx)
          /\ selectionMode' = IF clickedMonths' # {} THEN "month" ELSE NULL
      /\ last'.op = "toggleRing" =>
          /\ clickedMonths' = {} /\ clickedPeriods' = {}
          /\ C1_Flip(clickedRings, clickedRings', last'.idx)
          /\ selectionMode' = IF clickedRings' # {} THEN "ring" ELSE NULL
      /\ last'.op = "togglePeriod" =>
          /\ clickedMonths' = {} /\ clickedRings' = {}
          /\ C1_Flip(clickedPeriods, clickedPeriods', last'.idx)
          /\ selectionMode' = IF clickedPeriods' # {} THEN "period" ELSE NULL

\* C1: a click-toggle on axis X with index i empties the click-sets of the
\* other two axes, flips the membership of i in X's click-set, leaves every
\* other member of it as it was, and sets selectionMode to X if X's click-set
\* is then non-empty and to null if it is empty.
C1_ToggleContract == [][C1_Step]_vars

\* C1 witness: a period was toggled off while another period stays clicked
C1_Witness ==
  /\ last.op = "togglePeriod"
  /\ last.idx \notin clickedPeriods
  /\ clickedPeriods # {}
  /\ selectionMode = "period"

\* the contract of C2 on one step
C2_Step ==
      /\ last'.op = "eventClick" =>
          IF clickedEvent = last'.ev
          THEN clickedEvent' = NULL
          ELSE /\ clickedEvent' = last'.ev
               /\ clickedEventPhase' = 0
               /\ currentHoverPhase' = 0
               /\ centerInfo' = [ev |-> last'.ev, phase |-> 0]
      /\ clickedEvent' \in AllVisibleEvents \cup {NULL}

\* C2: a click on the marker of event e closes the detail view when e is the
\* clicked event, and otherwise makes e the clicked event with the carousel at
\* phase 0, whatever was clicked and shown before; the clicked event is one
\* event or none.
C2_EventClickContract == [][C2_Step]_vars

\* C2 witness: a click opened an event's view after a chevron was pressed in
\* an earlier view, while the hovered slot still names another event
C2_Witness ==
  /\ last.op = "eventClick"
  /\ clickedEvent = last.ev
  /\ chevronJustClicked
  /\ hoveredEvent \notin {NULL, last.ev}

\* C3: after a reset the three click-sets are empty, selectionMode and
\* clickedEvent are null, the phase is 0 and no scheduled callback is pending.
C3_ResetClears ==
  last.op = "reset" =>
    /\ clickedMonths = {} /\ clickedRings = {} /\ clickedPeriods = {}
    /\ selectionMode = NULL
    /\ clickedEvent = NULL
    /\ clickedEventPhase = 0 /\ currentHoverPhase = 0
    /\ timers = {}

\* C3 witness: a reset ran after a chevron press, that is, after a view was open
C3_Witness == last.op = "reset" /\ chevronJustClicked

\* the three delays startHoverCycle uses
C4_Delays == {Delay1, Delay2, Delay3}

C4_Step ==
      /\ (last'.op = "eventClick" /\ clickedEvent' # NULL) =>
          /\ clickedEventPhase' = 0
          /\ centerInfo' = [ev |-> clickedEvent', phase |-> 0]
          /\ timers' = {}
      /\ clickedEvent' # NULL => timers' = {}
      /\ (last'.op = "eventMouseover" /\ clickedEvent = NULL) =>
          {<<t.ev, t.delay>> : t \in timers'} = {last'.ev} \X C4_Delays

C5_Closes ==
  \/ last'.op = "eventClick" /\ clickedEvent = last'.ev
  \/ last'.op = "svgClickClose"
  \/ last'.op = "toggleMonth" /\ ~chevronJustClicked /\ clickedEvent # NULL
  \/ last'.op = "reset"
  \/ last'.op = "eventMouseout" /\ clickedEvent = NULL

\* the contract of C5 on one step
C5_Step ==
  C5_Closes =>
    /\ clickedEvent' = NULL
    /\ clickedEventPhase' = 0
    /\ currentHoverPhase' = 0
    /\ timers' = {}
    /\ hoverCycleTimeouts' = <<>>

\* C5: after the view is closed by a click on the clicked event, by a click
\* that reaches the svg handler's close branch or by reset, and after the
\* pointer leaves a marker while no event is clicked, clickedEvent is null,
\* the phase is 0 and no disclosure is pending.
C5_CloseClears == [][C5_Step]_vars

\* C5 witness: a background click closed an open view (its chevrons fade)
C5_Witness ==
  /\ last.op = "svgClickClose"
  /\ chevrons = "fading"
  /\ clickedEvent = NULL

\* the contract of C6 on one step
C6_Step ==
  (last'.op = "timerFires" /\ last'.ev # hoveredEvent) =>
    /\ centerInfo' = centerInfo
    /\ currentHoverPhase' = currentHoverPhase
    /\ clickedEventPhase' = clickedEventPhase
    /\ hoverCycleTimeouts' = hoverCycleTimeouts
    /\ timers' \subseteq timers

\* C6: a disclosure callback that runs when hoveredEvent is not the event it
\* was scheduled for changes neither the displayed content nor the phase and
\* schedules nothing.
C6_StaleTimerNoOp == [][C6_Step]_vars

\* C6 witness: a callback ran for an event that was no longer the hovered one
C6_Witness ==
  /\ last.op = "timerFires"
  /\ last.ev # hoveredEvent
  /\ centerInfo.ev = last.ev

\* everything a chevron press may not touch when no event is clicked
C7_Untouched ==
  <<segmentFilters, selVars, hoveredEvent, clickedEvent, clickedEventPhase,
    cycleVars, events, centerInfo, chevrons, domVars>>

\* the contract of C7 on one step, with its two consequences on the phases
C7_Step ==
      /\ (last'.op = "chevronClick" /\ clickedEvent # NULL) =>
          /\ clickedEventPhase' = (clickedEventPhase + last'.idx + 3) % 3
          /\ centerInfo' = [ev |-> clickedEvent, phase |-> clickedEventPhase']
          /\ clickedEvent' = clickedEvent
          /\ timers' = {}
      /\ (last'.op = "chevronClick" /\ clickedEvent = NULL) =>
          UNCHANGED C7_Untouched
      /\ \A p \in 0..2 :
          /\ NextPhase(NextPhase(NextPhase(p, 1), 1), 1) = p
          /\ NextPhase(NextPhase(p, 1), -1) = p
      /\ clickedEventPhase' \in 0..2

\* C7: a press on the forward (+1) or back (-1) chevron while an event is
\* clicked sets the phase to (phase + direction + 3) mod 3 and leaves no
\* disclosure pending; three forward presses return to the phase they started
\* from and forward then back restores it; with no event clicked the press
\* changes no selection, phase, timer or content.
C7_Navigate == [][C7_Step]_vars

\* C7 witness: a back press from phase 0 wrapped to phase 2
C7_Witness ==
  /\ last.op = "chevronClick"
  /\ last.idx = -1
  /\ clickedEvent # NULL
  /\ clickedEventPhase = 2
  /\ centerInfo.phase = 2

\* the active sets, from the click-sets and the hovered slots
C8_ActiveMonths == clickedMonths \cup ({hoveredMonth} \ {NoIdx})
C8_ActiveRings == clickedRings \cup ({hoveredRing} \ {NoIdx})
C8_ActivePeriods == clickedPeriods \cup ({hoveredPeriod} \ {NoIdx})

\* the highlight classes are those of a recomputation in the current state
C8_Refreshed == last.op \notin {"init", "segmentButtonClick"}

\* the priority rule of C8 for the marker of event e
C8_Expected(e) ==
  IF C8_ActiveRings # {}
  THEN \E r \in C8_ActiveRings : RingName(r) \in {Ev(e).ring, Ev(e).ring_2}
  ELSE IF C8_ActiveMonths # {} THEN Ev(e).month \in C8_ActiveMonths
  ELSE IF C8_ActivePeriods # {}
       THEN EvWeek(e) \in getActiveWeeksFromPeriods(C8_ActivePeriods)
  ELSE FALSE

C9_AnyActive ==
  \/ clickedMonths # {} \/ clickedRings # {} \/ clickedPeriods # {}
  \/ hoveredMonth # NoIdx \/ hoveredRing # NoIdx \/ hoveredPeriod # NoIdx

\* C9: after every recomputation a marker, and its connector, is dimmed iff
\* some activation exists and the marker is not active; no marker is both
\* active and dimmed, and without activation no marker is dimmed.
C9_DimmedIffNotActive ==
  C8_Refreshed =>
    /\ markerDimmed = {e \in Markers : C9_AnyActive /\ e \notin markerActive}
    /\ connDimmed = {e \in Markers : C9_AnyActive /\ e \notin connActive}
    /\ connActive = markerActive
    /\ markerActive \cap markerDimmed = {}
    /\ (~C9_AnyActive => markerDimmed = {} /\ connDimmed = {})

\* C9 witness: activation exists, one marker is active and another is dimmed
C9_Witness ==
  /\ C8_Refreshed
  /\ C9_AnyActive
  /\ markerActive # {}
  /\ markerDimmed # {}

\* only periods are active
C10_PeriodOnly ==
  /\ C8_ActivePeriods # {}
  /\ C8_ActiveMonths = {}
  /\ C8_ActiveRings = {}

\* C10 as stated: under period-only activation no ring segment, no month arc
\* and no month label is dimmed.
C10_NothingDimmed ==
  C10_PeriodOnly =>
    /\ ringSegDimmed = {}
    /\ monthArcDimmed = {}
    /\ monthLabelDimmed = {}

\* C10 (amended): under period-only activation no month arc and no month
\* label is dimmed, and every ring segment is dimmed (none is active).
C10_MonthsNotDimmed ==
  C10_PeriodOnly =>
    /\ monthArcDimmed = {}
    /\ monthLabelDimmed = {}
    /\ ringSegDimmed = Rings \X Months
    /\ ringSegActive = {}

\* C10 witness: a period is clicked and nothing else is active
C10_Witness ==
  /\ C10_PeriodOnly
  /\ clickedPeriods # {}
  /\ last.op = "togglePeriod"

\* the weeks of period t of the divider list w, as C11 states them
C11_PeriodWeeks(w, t, total) ==
  LET s == w[t + 1]
      e == w[((t + 1) % Len(w)) + 1]
  IN  {k \in 1..total : IF e > s THEN (s <= k /\ k < e) ELSE (k >= s \/ k < e)}

\* C11: for a divider list w of length N and a set P of period indices in
\* 0..N-1, activeWeeks(P) is the union over t in P of the weeks of period t,
\* where with s = w[t] and e = w[(t+1) mod N] week k is in period t iff
\* s <= k < e when e > s, and iff k >= s or k < e when e <= s.
C11_ActiveWeeksUnion ==
  activeWeeksResult.called =>
    activeWeeksResult.weeks =
      UNION {C11_PeriodWeeks(config.periodDividerWeeks, t,
                             totalWeeksOf(config.year)) :
               t \in activeWeeksResult.periods}

\* C11 witness: the weeks of two periods were united, one of them with equal
\* dividers (it wraps over the whole year) and one that does not wrap
C11_Witness ==
  /\ activeWeeksResult.called
  /\ \E t, u \in activeWeeksResult.periods :
       LET w == config.periodDividerWeeks
       IN  /\ w[t + 1] = w[((t + 1) % Len(w)) + 1]
           /\ w[u + 1] < w[((u + 1) % Len(w)) + 1]
  /\ activeWeeksResult.weeks = 1..totalWeeksOf(config.year)

\* the call of C12: dividers [1, 14, 27, 40], a 52-week year, periods [3]
C12_Call ==
  /\ activeWeeksResult.called
  /\ config.periodDividerWeeks = <<1, 14, 27, 40>>
  /\ config.year = Year - 1
  /\ activeWeeksResult.periods = {3}

\* C12 as stated: activeWeeks([3]) contains week 52 and week 1 and does not
\* contain week 14.
C12_ContainsWeekOne ==
  C12_Call =>
    /\ 52 \in activeWeeksResult.weeks
    /\ 1 \in activeWeeksResult.weeks
    /\ 14 \notin activeWeeksResult.weeks

\* C12 (amended): for the dividers [1, 14, 27, 40] in a 52-week year
\* activeWeeks([3]) contains week 52 and contains neither week 1 nor week 14:
\* it is the weeks 40..52.
C12_LastQuarter ==
  C12_Call =>
    /\ 52 \in activeWeeksResult.weeks
    /\ 1 \notin activeWeeksResult.weeks
    /\ 14 \notin activeWeeksResult.weeks
    /\ activeWeeksResult.weeks = 40..52

\* C12 witness: the call of C12 returned
C12_Witness == C12_Call /\ activeWeeksResult.weeks # {}

\* what no hover on a month arc, ring segment or period arc may touch
C13_Frame ==
  <<clickedMonths, clickedRings, clickedPeriods, selectionMode, clickedEvent,
    clickedEventPhase, segmentFilters, hoveredEvent, events, chevronJustClicked,
    cycleVars, centerInfo, chevrons>>

\* the contract of C13 on one step
C13_Step ==
      /\ last'.op = "monthMouseover" =>
          /\ hoveredMonth' = last'.idx
          /\ UNCHANGED <<hoveredRing, hoveredPeriod, C13_Frame>>
      /\ last'.op = "monthMouseout" =>
          /\ hoveredMonth' = NoIdx
          /\ UNCHANGED <<hoveredRing, hoveredPeriod, C13_Frame>>
      /\ last'.op = "ringMouseover" =>
          /\ hoveredRing' = last'.idx
          /\ UNCHANGED <<hoveredMonth, hoveredPeriod, C13_Frame>>
      /\ last'.op = "ringMouseout" =>
          /\ hoveredRing' = NoIdx
          /\ UNCHANGED <<hoveredMonth, hoveredPeriod, C13_Frame>>
      /\ last'.op = "periodMouseover" =>
          /\ hoveredPeriod' = last'.idx
          /\ UNCHANGED <<hoveredMonth, hoveredRing, C13_Frame>>
      /\ last'.op = "periodMouseout" =>
          /\ hoveredPeriod' = NoIdx
          /\ UNCHANGED <<hoveredMonth, hoveredRing, C13_Frame>>

\* C13: hover-enter on a month arc, ring segment or period arc sets only the
\* hovered slot of that axis, to the index, and hover-leave sets only that
\* slot to null; selectionMode, the three click-sets, clickedEvent and the
\* carousel phase are unchanged by any hover.
C13_HoverFrame == [][C13_Step]_vars

\* C13 witness: the pointer left a period arc while a period is clicked, the
\* mode is period and a detail view is open
C13_Witness ==
  /\ last.op = "periodMouseout"
  /\ hoveredPeriod = NoIdx
  /\ clickedPeriods # {}
  /\ selectionMode = "period"
  /\ clickedEvent # NULL

\* the contract of C14 on one step
C14_Step ==
  last'.op = "eventClick" =>
    UNCHANGED <<clickedMonths, clickedRings, clickedPeriods, selectionMode>>

\* C14: a click on an event marker, whether it opens, replaces or closes the
\* detail view, leaves the three click-sets and selectionMode unchanged.
C14_EventClickFrame == [][C14_Step]_vars

\* C14 witness: a click opened an event's view while a ring is clicked
C14_Witness ==
  /\ last.op = "eventClick"
  /\ clickedEvent = last.ev
  /\ centerInfo.ev = last.ev
  /\ chevrons = "shown"
  /\ clickedRings # {}
  /\ selectionMode = "ring"

\* C15: after a reset the click-sets are empty, clickedEvent and the mode are
\* null, and the hovered month, ring and period slots and hoveredEvent are
\* null.
C15_ResetClearsHover ==
  last.op = "reset" =>
    /\ clickedMonths = {} /\ clickedRings = {} /\ clickedPeriods = {}
    /\ clickedEvent = NULL
    /\ selectionMode = NULL
    /\ hoveredMonth = NoIdx /\ hoveredRing = NoIdx /\ hoveredPeriod = NoIdx
    /\ hoveredEvent = NULL

-----------------------------------------------------------------------------
(* Claims about the marker radius of line-placed events (SpecRadius).       *)

\* the call of calculateLabelPositions has returned for a line-placed event
C16_LineCall ==
  /\ last.op = "calculateLabelPositions"
  /\ Len(labelData) = 1
  /\ labelEvents[1].placering = "linje"

\* the two ring indices of the line-placed event
C16_RingIdx == ringIdxOf(labelEvents[1].ring)
C16_RingIdx2 == ringIdx2Of(labelEvents[1].ring_2, C16_RingIdx)

\* the radius of the line with index k, in RadiusUnits-th parts:
\* inner + k * gap with gap = (outer - inner) / ringCount
C16_LineRadius(k) ==
  RadiusUnits(layout) * layout.ringInner + 2 * k * (layout.ringOuter - layout.ringInner)

\* a line-placed event whose ring and ring_2 are both the ring of index k
C16_BothOn(k) ==
  [ring |-> JsNumber(k), ring_2 |-> JsNumber(k), placering |-> "linje",
   approxY |-> 0, isLeft |-> FALSE]

\* C16 as stated: a line-placed event whose ring and ring_2 resolve to two
\* different indices has the radius of the outer edge of the higher-indexed
\* ring, the radius of a line-placed event with both rings the higher one.
C16_OuterEdgeOfHigher ==
  (C16_LineCall /\ C16_RingIdx # C16_RingIdx2)
    => /\ labelData[1].r = C16_LineRadius(MathMax(C16_RingIdx, C16_RingIdx2) + 1)
       /\ labelData[1].r
            = markerRadius(C16_BothOn(MathMax(C16_RingIdx, C16_RingIdx2)), layout)

\* C16 amended: a line-placed event whose ring and ring_2 resolve to two
\* different indices has the radius inner + max * gap, the inner edge of the
\* higher-indexed ring; that is the radius of a line-placed event with both
\* rings of index max - 1, one gap inside the event with both rings the
\* higher one.
C16_InnerEdgeOfHigher ==
  (C16_LineCall /\ C16_RingIdx # C16_RingIdx2)
    => /\ labelData[1].r = C16_LineRadius(MathMax(C16_RingIdx, C16_RingIdx2))
       /\ labelData[1].r
            = markerRadius(C16_BothOn(MathMax(C16_RingIdx, C16_RingIdx2) - 1), layout)
       /\ labelData[1].r + 2 * (layout.ringOuter - layout.ringInner)
            = markerRadius(C16_BothOn(MathMax(C16_RingIdx, C16_RingIdx2)), layout)

\* C16 witness: the radius of a line-placed event between long-term planning
\* (index 0) and planning (index 1) was computed under the default layout:
\* 120 + 1 * 65 = 185, which is 1480 eighths
C16_Witness ==
  /\ C16_LineCall
  /\ layout = DefaultLayout
  /\ labelEvents[1].ring = JsString("langtidsplanering")
  /\ labelEvents[1].ring_2 = JsString("planering")
  /\ labelData[1].r = 1480

\* C17: a line-placed event whose ring and ring_2 resolve to the same index i
\* (ring_2 absent or an unknown name included) has the radius of the outer
\* edge of ring i, inner + (i + 1) * gap with gap = (outer - inner) / ringCount.
C17_OuterEdgeOfSame ==
  (C16_LineCall /\ C16_RingIdx = C16_RingIdx2)
    => labelData[1].r = C16_LineRadius(C16_RingIdx + 1)

\* C17 witness: the radius of a line-placed planning event without ring_2 was
\* computed under the default layout: 120 + 2 * 65 = 250, which is 2000 eighths
C17_Witness ==
  /\ C16_LineCall
  /\ layout = DefaultLayout
  /\ labelEvents[1].ring = JsString("planering")
  /\ labelEvents[1].ring_2 = JsUndefined
  /\ labelData[1].r = 2000

-----------------------------------------------------------------------------
(* Claims about the weeks of a year (SpecCalendar).                         *)

\* a year has 53 ISO weeks iff its January 1 is a Thursday, or it is a leap
\* year whose January 1 is a Wednesday
C18_Has53IsoWeeks(y) ==
  \/ GetDay(Jan1(y)) = 4
  \/ IsLeap(y) /\ GetDay(Jan1(y)) = 3

\* C18: for every year the total number of weeks used for the week ring and
\* for period membership is 53 exactly when the year has 53 ISO weeks, and 52
\* otherwise.
C18_TotalWeeksIsIso ==
  weekRingTotal > 0
    => /\ weekRingTotal = (IF C18_Has53IsoWeeks(config.year) THEN 53 ELSE 52)
       /\ totalWeeksOf(config.year) = (IF C18_Has53IsoWeeks(config.year) THEN 53 ELSE 52)

\* C19: for every year and every week of 1..totalWeeks the range of the week
\* starts no earlier than January 1, ends no later than December 31, and its
\* start is not after its end; so for week 1 and for week totalWeeks.  It
\* holds for the weeks the loop of renderWeekRing asks for and likewise for
\* the weeks 1..52 or 1..53 of the ISO count of the year.
C19_RangeWithinYear ==
  weekRange.called
    => /\ weekRange.week \in 1..weekRingTotal
       /\ weekRange.start >= DateOf(config.year, 0, 1)
       /\ weekRange.end <= DateOf(config.year, 11, 31)
       /\ weekRange.start <= weekRange.end
       /\ \A w \in 1..(IF C18_Has53IsoWeeks(config.year) THEN 53 ELSE 52) :
            /\ getIsoWeekRange(config.year, w).start >= DateOf(config.year, 0, 1)
            /\ getIsoWeekRange(config.year, w).end <= DateOf(config.year, 11, 31)
            /\ getIsoWeekRange(config.year, w).start
                 <= getIsoWeekRange(config.year, w).end

\* C19 witness: week 1 of 2026 was asked for; its Monday is December 29 of
\* 2025, so the range starts on January 1 (a Thursday) and ends on Sunday
\* January 4
C19_Witness ==
  /\ weekRange.called
  /\ config.year = Year
  /\ weekRange.week = 1
  /\ weekRange.start = DateOf(Year, 0, 1)
  /\ weekRange.end = DateOf(Year, 0, 4)
  /\ GetDay(weekRange.start) = 4

-----------------------------------------------------------------------------
(* Claims about the label columns (SpecLabels).                             *)

\* the labels of one column
C20_Column(side) == {j \in DOMAIN labelEvents : labelEvents[j].isLeft = side}

\* the spacing of one column
C20_Spacing(side) ==
  IF side THEN layout.labelVerticalSpacingLeft ELSE layout.labelVerticalSpacingRight

\* the place (0 .. n-1) of label j in its column by the initial vertical key;
\* labels with equal keys keep the order of the event list
C20_PlaceOf(j) ==
  Cardinality({k \in C20_Column(labelEvents[j].isLeft) :
                 \/ labelEvents[k].approxY < labelEvents[j].approxY
                 \/ labelEvents[k].approxY = labelEvents[j].approxY /\ k < j})

\* the sum of the positions of the labels 1..j that are in one column
RECURSIVE C20_SumLy(_, _)
C20_SumLy(side, j) ==
  IF j = 0 THEN 0
  ELSE C20_SumLy(side, j - 1) + (IF labelData[j].isLeft = side THEN labelData[j].ly ELSE 0)

\* C20: distributeEvenly gives the i-th label of a column of n labels (in the
\* order of the initial vertical key) the position -(n-1)*s/2 + i*s; the
\* labels next to each other in that order are exactly s apart, the positions
\* sum to 0, the order of the keys is kept, and for s > 0 no two labels of a
\* column share a position.  Positions are counted in halves.
C20_EvenColumn ==
  last.op = "calculateLabelPositions"
    => /\ Len(labelData) = Len(labelEvents)
       /\ \A side \in BOOLEAN :
            LET col == C20_Column(side)
                n == Cardinality(col)
                sp == C20_Spacing(side)
            IN  /\ \A j \in col :
                     /\ labelData[j].isLeft = side
                     /\ labelData[j].ly = -((n - 1) * sp) + 2 * C20_PlaceOf(j) * sp
                /\ \A j, k \in col :
                     /\ C20_PlaceOf(k) = C20_PlaceOf(j) + 1
                          => labelData[k].ly - labelData[j].ly = 2 * sp
                     /\ labelEvents[j].approxY < labelEvents[k].approxY
                          => labelData[j].ly <= labelData[k].ly
                     /\ (sp > 0 /\ j # k) => labelData[j].ly # labelData[k].ly
                /\ C20_SumLy(side, Len(labelData)) = 0

\* C20 witness: a left column of three labels with the keys 1, 0, 1 and the
\* spacing 2 was distributed: the label with key 0 is at -2, the two others
\* at 0 and 2 in the order of the list (in halves -4, 0, 4)
C20_Witness ==
  /\ last.op = "calculateLabelPositions"
  /\ Len(labelEvents) = 3
  /\ \A j \in 1..3 : labelEvents[j].isLeft
  /\ [j \in 1..3 |-> labelEvents[j].approxY] = <<1, 0, 1>>
  /\ layout.labelVerticalSpacingLeft = 2
  /\ [j \in 1..3 |-> labelData[j].ly] = <<0, -4, 4>>

-----------------------------------------------------------------------------
(* Claims about getRadius (SpecRadius, events placed at the ring centre).   *)

\* the call of calculateLabelPositions has returned for an event placed at
\* the centre of a ring given by name: its radius is getRadius(ev.ring, ...)
C21_NameCall ==
  /\ last.op = "calculateLabelPositions"
  /\ Len(labelData) = 1
  /\ labelEvents[1].placering = "center"
  /\ labelEvents[1].ring.t = "string"

\* inner + i * gap + gap / 2 in RadiusUnits-th parts
C21_CentreRadius(i) ==
  RadiusUnits(layout) * layout.ringInner
    + (2 * i + 1) * (layout.ringOuter - layout.ringInner)

\* C21 as stated: for a ring name with table index i the radius is
\* inner + i*gap + gap/2, and for every name that is not in the table it is
\* the radius of ring index 0.
C21_TableOrZero ==
  C21_NameCall
    => labelData[1].r
         = (IF labelEvents[1].ring.s \in DOMAIN RING_MAP
            THEN C21_CentreRadius(RING_MAP[labelEvents[1].ring.s])
            ELSE C21_CentreRadius(0))

\* C21 amended: the name "manad", although it has the table index 4, gives
\* the midpoint of the month band; every other name of the table gives
\* inner + i*gap + gap/2 for its index i, and every name that is not in the
\* table gives the radius of ring index 0.
C21_TableOrZeroExceptMonth ==
  C21_NameCall
    => labelData[1].r
         = (IF labelEvents[1].ring.s = "manad"
            THEN layout.ringCount * (layout.monthBandR0 + layout.monthBandR1)
            ELSE IF labelEvents[1].ring.s \in DOMAIN RING_MAP
            THEN C21_CentreRadius(RING_MAP[labelEvents[1].ring.s])
            ELSE C21_CentreRadius(0))

\* C21 witness: the radius of an event on a ring of unknown name was computed
\* under the default layout: 120 + 65 / 2 = 152.5, which is 1220 eighths, the
\* radius of the ring of index 0
C21_Witness ==
  /\ C21_NameCall
  /\ layout = DefaultLayout
  /\ labelEvents[1].ring = JsString("okand")
  /\ labelData[1].r = 1220
  /\ labelData[1].r = getRadius(JsString("langtidsplanering"), layout)

-----------------------------------------------------------------------------
(* Claims about the connector elbow (SpecElbow).                            *)

\* the quadratic of the call that has returned
C22_Coefs ==
  ElbowCoefs([x |-> elbowCall.x, y |-> elbowCall.y],
             elbowCall.lineEndX, elbowCall.lineEndY, layout)

\* the call had no real intersection, or its segment has no length
C22_NoIntersection ==
  /\ elbowCall.called
  /\ (C22_Coefs.discriminant < 0 \/ C22_Coefs.a = 0)

\* C22: when the line from the marker to the label end has no real
\* intersection with the elbow circle, or the segment has zero length, the
\* elbow is on the elbow circle at the marker's own angle, whatever the curve
\* factor: the interpolation starts at the marker's angle and has no turn
\* to take.
C22_ElbowAtMarkerAngle ==
  C22_NoIntersection
    => /\ elbowCall.elbow.radius = layout.connectorElbowRadius
       /\ elbowCall.elbow.from = elbowCall.a
       /\ elbowCall.elbow.toward = elbowCall.a
       /\ ElbowAngleIs(elbowCall.elbow, elbowCall.a)

\* C22 witness: the elbow of a marker at (10, 0), outside an elbow circle of
\* radius 5, was computed for a label end at (12, 12): the line misses the
\* circle, the curve factor is 1/2, and the elbow is at the angle of the marker
C22_Witness ==
  /\ elbowCall.called
  /\ elbowCall.x = 10 /\ elbowCall.y = 0
  /\ elbowCall.lineEndX = 12 /\ elbowCall.lineEndY = 12
  /\ layout.connectorElbowRadius = 5
  /\ C22_Coefs.discriminant < 0
  /\ elbowCall.elbow.factor = [num |-> 1, den |-> 2]
  /\ elbowCall.elbow.from = <<1, 0>>
  /\ elbowCall.elbow.toward = <<1, 0>>

-----------------------------------------------------------------------------
(* Claims about the angle scale (SpecAngle).                                *)

\* every angle returned is in [-pi/2, 3 pi/2), and the angle of January 1 is
\* -pi/2
C23_InRange ==
  angleCall.called
    => /\ angleCall.angle >= -DomainDays(config.year)
       /\ angleCall.angle < 3 * DomainDays(config.year)
       /\ (angleCall.date = DateOf(config.year, 0, 1)
             => angleCall.angle = -DomainDays(config.year))

\* of two calls one after the other, the later date gets no smaller angle
C23_Step ==
  (angleCall.called /\ angleCall'.called)
    => /\ (angleCall.date <= angleCall'.date => angleCall.angle <= angleCall'.angle)
       /\ (angleCall'.date <= angleCall.date => angleCall'.angle <= angleCall.angle)

\* C23: for dates d1 <= d2 of the year angle(d1) <= angle(d2), the angle of
\* January 1 is -pi/2, and every angle is in [-pi/2, 3 pi/2).
C23_AngleMonotone == [](C23_InRange) /\ [][C23_Step]_vars

\* C23 witness: the angle of December 31 of a leap year was computed: 365 of
\* 366 days on, it is 4 * 365 - 366 = 1094 parts, below 3 * 366
C23_Witness ==
  /\ angleCall.called
  /\ IsLeap(config.year)
  /\ angleCall.date = DateOf(config.year, 11, 31)
  /\ angleCall.angle = 1094
  /\ angleCall.angle < 3 * DomainDays(config.year)

-----------------------------------------------------------------------------
(* Claims about closing the detail view (SpecCarousel).                     *)

\* a background click was delivered while an event is clicked
C24_BackgroundClickOnView ==
  /\ last'.op \in {"svgClickSwallowed", "svgClickClose", "svgClickIdle"}
  /\ clickedEvent # NULL

\* the contract of C24 on one step
C24_Step ==
  C24_BackgroundClickOnView => (clickedEvent' = NULL /\ clickedEventPhase' = 0)

\* C24: every background click delivered while an event is clicked closes the
\* detail view (clickedEvent becomes null, the phase 0), whatever came before
\* it, presses on the carousel chevrons included.
C24_BackgroundClickCloses == [][C24_Step]_vars

-----------------------------------------------------------------------------
(* Claims about hovering a marker (SpecHoverLoop, SpecPointer).             *)

\* the pointer is on a marker, no event is clicked, and nothing but the
\* hover-enter and the scheduled callbacks has happened since
C25_Undisturbed ==
  /\ pointerOver # NULL
  /\ clickedEvent = NULL
  /\ hoveredEvent = pointerOver
  /\ last.op \in {"eventMouseover", "timerFires"}

\* phase k of the hovered event is displayed
C25_Shown(k) == centerInfo = [ev |-> pointerOver, phase |-> k]

\* the order of the phases: the hover-enter shows phase 0, and a callback
\* shows the phase after the one displayed
C25_Step ==
  /\ (last'.op = "eventMouseover" /\ C25_Undisturbed') => C25_Shown(0)'
  /\ (C25_Undisturbed /\ C25_Undisturbed' /\ last'.op = "timerFires")
       => \E k \in 0..2 : C25_Shown(k) /\ C25_Shown((k + 1) % 3)'

\* C25: while the pointer stays on one marker, no event is clicked and nothing
\* else happens, the displayed phase goes 0, 1, 2, 0, ... in that order, and
\* with the callbacks fired fairly each of the three phases is shown again
\* and again.
C25_PhasesCycle ==
  /\ [][C25_Step]_vars
  /\ (<>[]C25_Undisturbed)
       => ([]<>C25_Shown(0) /\ []<>C25_Shown(1) /\ []<>C25_Shown(2))

\* C25 witness: the callback of 9000 ms has restarted the cycle of the marker
\* under the pointer: phase 0 is shown again and three callbacks are pending
C25_Witness ==
  /\ C25_Undisturbed
  /\ last.op = "timerFires" /\ last.idx = Delay3
  /\ C25_Shown(0)
  /\ Cardinality(timers) = 3

\* C27: whenever no event is clicked and the pointer is over no marker,
\* hoveredEvent is null, also after a detail view was closed by a background
\* click or a reset.
C27_NoStaleHover ==
  (clickedEvent = NULL /\ pointerOver = NULL) => hoveredEvent = NULL

\* everything the hover handlers of a marker could touch
C28_Interaction ==
  <<hoveredEvent, clickedEvent, clickedEventPhase, cycleVars, centerInfo, chevrons,
    selVars, segmentFilters, events, chevronJustClicked, domVars>>

\* the contract of C28 on one step
C28_Step ==
  (clickedEvent # NULL /\ last'.op \in {"eventMouseover", "eventMouseout"})
    => UNCHANGED C28_Interaction

\* C28: while an event is clicked, hover-enter and hover-leave on any marker
\* leave the interaction state as it is: hoveredEvent, clickedEvent, the
\* carousel phase and the pending callbacks.
C28_HoverIgnoredWhileClicked == [][C28_Step]_vars

\* C28 witness: the pointer entered the marker of another event than the
\* clicked one
C28_Witness ==
  /\ clickedEvent # NULL
  /\ last.op = "eventMouseover"
  /\ pointerOver # NULL /\ pointerOver # clickedEvent
  /\ hoveredEvent # pointerOver

-----------------------------------------------------------------------------
(* Claims about the selection as a whole (SpecSel).                         *)

\* the axes whose click-set is not empty
C26_Selected ==
  {axis \in {"month", "ring", "period"} :
     \/ axis = "month" /\ clickedMonths # {}
     \/ axis = "ring" /\ clickedRings # {}
     \/ axis = "period" /\ clickedPeriods # {}}

\* C26: in every reachable state at most one of clickedMonths, clickedRings
\* and clickedPeriods is non-empty, selectionMode names exactly the non-empty
\* one, and selectionMode is null iff all three are empty.
C26_ModeMatchesSets ==
  /\ Cardinality(C26_Selected) <= 1
  /\ \A axis \in {"month", "ring", "period"} :
       (selectionMode = axis) <=> (axis \in C26_Selected)
  /\ (selectionMode = NULL) <=> (C26_Selected = {})

\* C26 witness: a ring was toggled on while a period is hovered; the ring set
\* is the only non-empty one and the mode is "ring"
C26_Witness ==
  /\ last.op = "toggleRing"
  /\ clickedRings # {}
  /\ hoveredPeriod # NoIdx
  /\ selectionMode = "ring"
  /\ C26_Selected = {"ring"}

-----------------------------------------------------------------------------
(* Claims about the periods as a whole (SpecWeeks).                         *)

\* the divider list of the configuration is strictly increasing and all its
\* dividers are weeks of the year
C29_Increasing ==
  LET w == config.periodDividerWeeks
  IN  /\ \A i \in 1..(Len(w) - 1) : w[i] < w[i + 1]
      /\ \A i \in 1..Len(w) : w[i] \in 1..totalWeeksOf(config.year)

\* the periods partition the weeks: every week is in the week set of exactly
\* one period index, and the call with all periods returned all weeks
C29_Partition ==
  LET all == 0..(Len(config.periodDividerWeeks) - 1)
      weeks == 1..totalWeeksOf(config.year)
  IN  /\ \A k \in weeks :
           Cardinality({t \in all : k \in getActiveWeeksFromPeriodsOf({t}, config)}) = 1
      /\ \A t, u \in all :
           t # u => getActiveWeeksFromPeriodsOf({t}, config)
                      \cap getActiveWeeksFromPeriodsOf({u}, config) = {}
      /\ activeWeeksResult.periods = all => activeWeeksResult.weeks = weeks

\* C29 as stated: for every strictly increasing divider list with all
\* dividers in 1..totalWeeks the periods partition the weeks.
C29_PartitionAlways ==
  (activeWeeksResult.called /\ C29_Increasing) => C29_Partition

\* C29 amended: for every strictly increasing divider list that is not empty
\* and has all dividers in 1..totalWeeks the periods partition the weeks; the
\* empty list has no period and its weeks belong to none.
C29_PartitionNonEmpty ==
  /\ (activeWeeksResult.called /\ C29_Increasing /\ config.periodDividerWeeks # <<>>)
       => C29_Partition
  /\ (activeWeeksResult.called /\ config.periodDividerWeeks = <<>>)
       => activeWeeksResult.weeks = {}

\* C29 witness: all three periods of the dividers 14, 27, 40 were activated in
\* a 53-week year; the last period wraps from week 40 over the end of the year
\* to week 13, and the call returned all 53 weeks
C29_Witness ==
  /\ activeWeeksResult.called
  /\ config.periodDividerWeeks = <<14, 27, 40>>
  /\ config.year = Year
  /\ activeWeeksResult.periods = {0, 1, 2}
  /\ activeWeeksResult.weeks = 1..53
  /\ getActiveWeeksFromPeriodsOf({2}, config) = (40..53) \cup (1..13)

-----------------------------------------------------------------------------
(* Claims about the week of a date (SpecWeekOfDate).                        *)

\* C30: every date d of the configured year lies inside the range that
\* getIsoWeekRange returns for the year and getWeekNumber(d).
C30_DateInItsWeek ==
  dateWeek.called
    => (dateWeek.start <= dateWeek.date /\ dateWeek.date <= dateWeek.end)

====
